---- MODULE Spec2Model ----
(***************************************************************************)
(* Model of the runtime-mutable frame pipeline of ez-ffmpeg                *)
(* (core/filter/frame_pipeline.rs, frame_filter_context.rs,                *)
(* frame_pipeline_builder.rs) and of the chain worker that binds it to a   *)
(* stream and runs its hooks (core/scheduler/frame_filter_pipeline.rs).    *)
(*                                                                         *)
(* The chain is a heap of FrameFilterContext cells.  A strong reference    *)
(* (Rc) is a positive cell id, None is 0.  A weak reference (the prev      *)
(* link) is a positive cell id while its target is alive, None is 0, and   *)
(* Dangling once the target has been dropped (upgrade() then fails).  A    *)
(* cell is alive exactly while it is reachable through strong references   *)
(* from head, tail or a local of the running code (the cell whose hook     *)
(* runs, the cell the pull pass holds), as Rc counts decide.               *)
(***************************************************************************)
EXTENDS Integers, Sequences, FiniteSets, TLC

\* ---------------------------------------------------------------- bounds
MaxNodes == 3
MaxBuilderFilters == 2
MaxStreams == 2
MaxDsts == 3
MaxUnits == 2
MaxSinks == 2
MaxWorkers == 3
MaxBurst == 9
MaxYield == 2

\* ------------------------------------------------------------- constants
Names == {"a", "b", "c"}
FilterKinds == {"video", "audio"}
MediaTypes == {"video", "audio", "subtitle"}
NodeIds == 1..MaxNodes
Dangling == -1
NoName == ""

\* A stage implementation: its identity and the media kind it reports.  The
\* chain never reads the identity of a stage, only its media kind; a stage
\* handed to the chain is tagged with the name it is handed in under.
Filters == [id : Names, kind : FilterKinds]
StagesNamed(name) == {f \in Filters : f.id = name}
NoopFilter == [id |-> "noop", kind |-> "unknown"]
NoFilter == [id |-> "none", kind |-> "none"]

VARIABLES
    builder,            \* FramePipelineBuilder
    built,              \* TRUE once build() has produced the FramePipeline
    pipeline,           \* FramePipeline: media_type, head, tail, stream_index, linklabel
    ctxs,               \* heap of FrameFilterContext cells
    cur,                \* cell mutably borrowed by the worker while a hook runs (0: none)
    held,               \* cell the worker holds in its pull pass, the one whose produce
                        \* hook it asks (0: none)
    hook,               \* "none": no worker, the chain is called directly; "idle": the
                        \* worker is between hooks; else the hook the worker is running
    abs,                \* plain list of names the same calls produce
    last,               \* the last call and what it returned
    panicked,           \* the thread has panicked
    decoder_streams,    \* stream table of the demuxer
    encoder_streams,    \* stream table of the muxer
    nchan,              \* number of channels created so far (channels are 1..nchan)
    dsts,               \* Demuxer::dsts, the packet destinations of the demuxer
    bind,               \* outcome of the last binding resolution
    bound_chains,       \* the chains bound so far, in order: the stream, the channel
                        \* each receives from and the senders it was given
    scheduler_status,   \* run-status shared by every worker
    scheduler_result,   \* shared error slot ("none": empty)
    up,                 \* the channel a chain worker receives from
    down,               \* the channels a chain worker sends to, by channel id
    frame_senders,      \* the worker's list of senders (channel ids), in order
    worker,             \* the chain worker thread: where it is and what it has seen
    round,              \* what the last forwarding round did
    waited,             \* what wait() returned ("none": it has not returned)
    filter_graph,       \* FilterGraph: its src field (0: None, else the channel it holds)
    graph_chans,        \* the channels FilterGraph has created, by channel id
    graph_user,         \* the senders and receivers FilterGraph has handed out
    packets             \* the channels Demuxer::connect_stream has created, by
                        \* channel id

vars == <<builder, built, pipeline, ctxs, cur, held, hook, abs, last, panicked,
          decoder_streams, encoder_streams, nchan, dsts, bind, bound_chains,
          scheduler_status, scheduler_result, up, down, frame_senders, worker, round,
          waited, filter_graph, graph_chans, graph_user, packets>>

chainVars == <<builder, built, pipeline, ctxs, cur, held, hook, abs, last, panicked>>

workerVars == <<scheduler_status, scheduler_result, up, down, frame_senders, worker, round,
                waited>>

graphVars == <<filter_graph, graph_chans, graph_user>>

bindVars == <<decoder_streams, encoder_streams, nchan, dsts, bind, bound_chains, graphVars,
              packets>>

\* --------------------------------------------------------------- helpers
Min(S) == CHOOSE x \in S : \A y \in S : x <= y

FreeCtx == [name |-> NoName, frame_filter |-> NoopFilter, prev |-> 0, next |-> 0]

FrameFilterContext_new(name, frame_filter) ==
    [name |-> name, frame_filter |-> frame_filter, prev |-> 0, next |-> 0]

\* The cells met by following next-links from n, at most fuel of them.
RECURSIVE Walk(_, _, _)
Walk(h, n, fuel) ==
    IF n = 0 \/ fuel = 0 THEN <<>>
    ELSE <<n>> \o Walk(h, h[n].next, fuel - 1)

\* The cells met by following live prev-links from n, at most fuel of them.
RECURSIVE WalkBack(_, _, _)
WalkBack(h, n, fuel) ==
    IF n <= 0 \/ fuel = 0 THEN <<>>
    ELSE <<n>> \o WalkBack(h, h[n].prev, fuel - 1)

SeqToSet(s) == {s[i] : i \in 1..Len(s)}

NamesOf(h, w) == [i \in 1..Len(w) |-> h[w[i]].name]

Reverse(s) == [i \in 1..Len(s) |-> s[Len(s) + 1 - i]]

\* Cells kept alive by strong references from the given roots.
StrongReach(h, roots) ==
    UNION {SeqToSet(Walk(h, r, MaxNodes + 1)) : r \in roots \ {0}}

\* s without the elements that occur earlier in s.
Dedup(s) ==
    LET keep == {i \in 1..Len(s) : \A j \in 1..(i - 1) : s[j] # s[i]}
        rank(i) == Cardinality({j \in keep : j <= i})
    IN [k \in 1..Cardinality(keep) |-> s[CHOOSE i \in keep : rank(i) = k]]

\* The live cells in the order head's walk, tail's walk, B's walk and the
\* walk of the cell the pull pass holds meet them.
LiveOrder(s, B) ==
    Dedup(Walk(s.ctxs, s.head, MaxNodes + 1) \o Walk(s.ctxs, s.tail, MaxNodes + 1)
          \o Walk(s.ctxs, B, MaxNodes + 1) \o Walk(s.ctxs, s.held, MaxNodes + 1))

IndexIn(seq, x) == IF \E i \in 1..Len(seq) : seq[i] = x
                   THEN CHOOSE i \in 1..Len(seq) : seq[i] = x
                   ELSE 0

\* Rc drop at the end of a call: cells no strong reference reaches are
\* freed and weak references to them dangle.  Addresses carry no meaning,
\* so the live cells are renumbered 1..k in LiveOrder; the result gives the
\* chain, and B and node under their new numbers (0 if freed).
Collect(s, B, node) ==
    LET ord == LiveOrder(s, B)
        strong(x) == IF x = 0 THEN 0 ELSE IndexIn(ord, x)
        weak(x) == IF x <= 0 THEN x
                   ELSE IF IndexIn(ord, x) = 0 THEN Dangling ELSE IndexIn(ord, x)
        cell(n) == IF n <= Len(ord)
                   THEN [s.ctxs[ord[n]] EXCEPT !.prev = weak(@), !.next = strong(@)]
                   ELSE FreeCtx
    IN [s |-> [s EXCEPT !.ctxs = [n \in NodeIds |-> cell(n)],
                        !.head = strong(@), !.tail = strong(@), !.held = strong(@)],
        B |-> strong(B), node |-> strong(node)]

LiveCells(s, B) == StrongReach(s.ctxs, {s.head, s.tail, B, s.held})

HasFree(s, B) == LiveCells(s, B) # NodeIds

Fresh(s, B) == Min(NodeIds \ LiveCells(s, B))

\* Result of a chain operation: the chain it leaves, whether it found its
\* cell (or returned true), the stage it returned, the cell it acted on.
Done(s, B, ok, filter, node) ==
    LET c == Collect(s, B, node) IN
    [s |-> c.s, B |-> c.B, ok |-> ok, filter |-> filter, node |-> c.node, panic |-> FALSE]
Panic(s, B) ==
    LET c == Collect(s, B, 0) IN
    [s |-> c.s, B |-> c.B, ok |-> FALSE, filter |-> NoFilter, node |-> 0, panic |-> TRUE]

\* Mutant of ScanIndex: a scan that meets no cell of the name ends on the
\* head.
ScanIndex_or_head(s, name) ==
    LET w == Walk(s.ctxs, s.head, MaxNodes + 1)
        hits == {i \in 1..Len(w) : s.ctxs[w[i]].name = name}
    IN IF hits = {} THEN (IF Len(w) > 0 THEN 1 ELSE 0) ELSE Min(hits)

\* The head-to-tail scan shared by add_before, add_after, remove, find and
\* replace: the first cell from head whose name matches (0 if none), and
\* whether the scan borrows the cell B that is already mutably borrowed.
ScanIndex(s, name) ==
    LET w == Walk(s.ctxs, s.head, MaxNodes + 1)
        hits == {i \in 1..Len(w) : s.ctxs[w[i]].name = name}
    IN IF hits = {} THEN 0 ELSE Min(hits)

ScanNode(s, name) ==
    LET w == Walk(s.ctxs, s.head, MaxNodes + 1)
        i == ScanIndex(s, name)
    IN IF i = 0 THEN 0 ELSE w[i]

ScanConflict(s, B, name) ==
    LET w == Walk(s.ctxs, s.head, MaxNodes + 1)
        i == ScanIndex(s, name)
        visited == IF i = 0 THEN SeqToSet(w) ELSE {w[j] : j \in 1..i}
    IN B # 0 /\ B \in visited


\* Weak::upgrade: the strong reference, or None when the target is gone.
upgrade(w) == IF w > 0 THEN w ELSE 0

\* ------------------------------------------------- FrameFilterContext
\* Mutant of take_filter: reads the stage after the swap.
take_filter_after_swap(c) ==
    [ctx |-> [c EXCEPT !.frame_filter = NoopFilter], filter |-> NoopFilter]

\* take_filter: swap a NoopFilter in, hand the old stage out.
take_filter(c) ==
    [ctx |-> [c EXCEPT !.frame_filter = NoopFilter], filter |-> c.frame_filter]

\* replace_filter: swap new_filter in, hand the old stage out.
replace_filter(c, new_filter) ==
    [ctx |-> [c EXCEPT !.frame_filter = new_filter], filter |-> c.frame_filter]

\* ------------------------------------------------------ FramePipeline
\* s is the chain: [media_type, head, tail, ctxs].  B is the cell some
\* caller up the stack holds a RefMut on (0: none); borrowing it again
\* panics, with the writes made up to that point left in place.

\* attribute_map: HashMap<String, Box<dyn Any>>.  A boxed value is the
\* value and the type it was boxed as; a key without entry maps to NoAttr.
AttrKeys == {"k1", "k2"}
AttrTypes == {"i32", "String"}
AttrValues == {"x", "y"}
NoAttr == [type |-> "none", value |-> "none"]
\* An Option of a value of type T: None, or Some(value).
NoValue == [some |-> FALSE, type |-> "none", value |-> "none"]
Some(T, v) == [some |-> TRUE, type |-> T, value |-> v]

FramePipeline_new(media_type, stream_index, linklabel) ==
    [media_type |-> media_type, head |-> 0, tail |-> 0,
     stream_index |-> stream_index, linklabel |-> linklabel,
     attribute_map |-> [k \in AttrKeys |-> NoAttr]]

\* set_attribute::<T>(key, value): insert, replacing any entry of the key.
set_attribute(p, T, key, value) ==
    [p EXCEPT !.attribute_map[key] = [type |-> T, value |-> value]]

\* Mutant of get_attribute: the value is handed out whatever its type.
get_attribute_untyped(p, T, key) ==
    LET e == p.attribute_map[key]
    IN IF e = NoAttr THEN NoValue ELSE Some(T, e.value)

\* get_attribute::<T>(key): the entry of the key, if downcast_ref::<T>
\* succeeds on it, which it does iff the value was boxed as a T.
get_attribute(p, T, key) ==
    LET e == p.attribute_map[key]
    IN IF e = NoAttr THEN NoValue
       ELSE IF e.type = T THEN Some(T, e.value) ELSE NoValue

\* remove_attribute::<T>(key): the entry is removed and returned as it is;
\* T is not used.
remove_attribute(p, T, key) ==
    LET e == p.attribute_map[key]
    IN [p |-> [p EXCEPT !.attribute_map[key] = NoAttr],
        ret |-> IF e = NoAttr THEN NoValue ELSE Some(e.type, e.value)]

\* Mutant of add_first: tail is not set when the chain was empty.
add_first_tail_unset(s, B, name, filter) ==
    IF s.media_type # filter.kind THEN Panic(s, B)
    ELSE
    LET context == Fresh(s, B)
        s0 == [s EXCEPT !.ctxs[context] = FrameFilterContext_new(name, filter)]
        head == s0.head
        s1 == IF head # 0
              THEN [s0 EXCEPT !.ctxs[head].prev = context,
                              !.ctxs[context].next = head]
              ELSE s0
        s2 == [s1 EXCEPT !.head = context]
    IN IF head # 0 /\ head = B
       THEN Panic([s EXCEPT !.head = 0], B)
       ELSE Done(s2, B, TRUE, NoFilter, context)

add_first(s, B, name, filter) ==
    IF s.media_type # filter.kind THEN Panic(s, B)
    ELSE
    LET context == Fresh(s, B)
        s0 == [s EXCEPT !.ctxs[context] = FrameFilterContext_new(name, filter)]
        head == s0.head
        s1 == IF head # 0
              THEN [s0 EXCEPT !.ctxs[head].prev = context,
                              !.ctxs[context].next = head]
              ELSE s0
        s2 == [s1 EXCEPT !.head = context]
        s3 == IF s2.tail = 0 THEN [s2 EXCEPT !.tail = context] ELSE s2
    IN IF head # 0 /\ head = B
       THEN Panic([s EXCEPT !.head = 0], B)
       ELSE Done(s3, B, TRUE, NoFilter, context)

\* Mutant of add_last: the media kind is not asserted.
add_last_unchecked(s, B, name, filter) ==
    LET context == Fresh(s, B)
        s0 == [s EXCEPT !.ctxs[context] = FrameFilterContext_new(name, filter)]
        tail == s0.tail
        s1 == IF tail # 0
              THEN [s0 EXCEPT !.ctxs[tail].next = context,
                              !.ctxs[context].prev = tail]
              ELSE s0
        s2 == [s1 EXCEPT !.tail = context]
        s3 == IF s2.head = 0 THEN [s2 EXCEPT !.head = context] ELSE s2
    IN IF tail # 0 /\ tail = B
       THEN Panic([s EXCEPT !.tail = 0], B)
       ELSE Done(s3, B, TRUE, NoFilter, context)

add_last(s, B, name, filter) ==
    IF s.media_type # filter.kind THEN Panic(s, B)
    ELSE
    LET context == Fresh(s, B)
        s0 == [s EXCEPT !.ctxs[context] = FrameFilterContext_new(name, filter)]
        tail == s0.tail
        s1 == IF tail # 0
              THEN [s0 EXCEPT !.ctxs[tail].next = context,
                              !.ctxs[context].prev = tail]
              ELSE s0
        s2 == [s1 EXCEPT !.tail = context]
        s3 == IF s2.head = 0 THEN [s2 EXCEPT !.head = context] ELSE s2
    IN IF tail # 0 /\ tail = B
       THEN Panic([s EXCEPT !.tail = 0], B)
       ELSE Done(s3, B, TRUE, NoFilter, context)

\* Lines 83-99: splice a new cell in front of node.
add_before_splice(s, B, node, name, filter) ==
    LET context == Fresh(s, B)
        s0 == [s EXCEPT !.ctxs[context] = FrameFilterContext_new(name, filter),
                        !.ctxs[context].next = node]
        prev == s0.ctxs[node].prev
        s1 == IF prev # 0
              THEN LET t == [s0 EXCEPT !.ctxs[node].prev = 0] IN
                   IF upgrade(prev) # 0
                   THEN [t EXCEPT !.ctxs[prev].next = context,
                                  !.ctxs[context].prev = prev]
                   ELSE t
              ELSE [s0 EXCEPT !.head = context]
        s2 == [s1 EXCEPT !.ctxs[node].prev = context]
    IN IF upgrade(prev) # 0 /\ prev = B
       THEN Panic([s EXCEPT !.ctxs[node].prev = 0], B)
       ELSE Done(s2, B, TRUE, NoFilter, context)

add_before(s, B, base_name, name, filter) ==
    IF s.media_type # filter.kind THEN Panic(s, B)
    ELSE IF ScanConflict(s, B, base_name) THEN Panic(s, B)
    ELSE LET node == ScanNode(s, base_name) IN
         IF node = 0 THEN Done(s, B, FALSE, NoFilter, 0)
         ELSE add_before_splice(s, B, node, name, filter)

\* Mutant of add_after_splice: the new cell's next is node, not node's next.
add_after_splice_back_link(s, B, node, name, filter) ==
    LET context == Fresh(s, B)
        s0 == [s EXCEPT !.ctxs[context] = FrameFilterContext_new(name, filter),
                        !.ctxs[context].prev = node]
        next == s0.ctxs[node].next
        s1 == IF next # 0
              THEN [s0 EXCEPT !.ctxs[node].next = 0,
                              !.ctxs[next].prev = context,
                              !.ctxs[context].next = node]
              ELSE [s0 EXCEPT !.tail = context]
        s2 == [s1 EXCEPT !.ctxs[node].next = context]
    IN IF next # 0 /\ next = B
       THEN Panic([s EXCEPT !.ctxs[node].next = 0], B)
       ELSE Done(s2, B, TRUE, NoFilter, context)

\* Lines 111-125: splice a new cell behind node.
add_after_splice(s, B, node, name, filter) ==
    LET context == Fresh(s, B)
        s0 == [s EXCEPT !.ctxs[context] = FrameFilterContext_new(name, filter),
                        !.ctxs[context].prev = node]
        next == s0.ctxs[node].next
        s1 == IF next # 0
              THEN [s0 EXCEPT !.ctxs[node].next = 0,
                              !.ctxs[next].prev = context,
                              !.ctxs[context].next = next]
              ELSE [s0 EXCEPT !.tail = context]
        s2 == [s1 EXCEPT !.ctxs[node].next = context]
    IN IF next # 0 /\ next = B
       THEN Panic([s EXCEPT !.ctxs[node].next = 0], B)
       ELSE Done(s2, B, TRUE, NoFilter, context)

add_after(s, B, base_name, name, filter) ==
    IF s.media_type # filter.kind THEN Panic(s, B)
    ELSE IF ScanConflict(s, B, base_name) THEN Panic(s, B)
    ELSE LET node == ScanNode(s, base_name) IN
         IF node = 0 THEN Done(s, B, FALSE, NoFilter, 0)
         ELSE add_after_splice(s, B, node, name, filter)

\* Lines 136-157: unlink node.  Each statement reads the cell as the
\* statements before it left it: prev has been taken (set to None) by
\* line 140 when lines 149 and 151 read it.
remove_unlink(s, B, node) ==
    LET taken == take_filter(s.ctxs[node])
        s0 == [s EXCEPT !.ctxs[node] = taken.ctx]
        prev == s0.ctxs[node].prev
        t1 == [s0 EXCEPT !.ctxs[node].prev = 0]
        s1 == IF prev # 0
              THEN IF upgrade(prev) # 0
                   THEN [t1 EXCEPT !.ctxs[prev].next = t1.ctxs[node].next]
                   ELSE t1
              ELSE [s0 EXCEPT !.head = s0.ctxs[node].next]
        next == s1.ctxs[node].next
        t2 == [s1 EXCEPT !.ctxs[node].next = 0]
        s2 == IF next # 0
              THEN [t2 EXCEPT !.ctxs[next].prev = t2.ctxs[node].prev]
              ELSE [s1 EXCEPT !.tail = upgrade(s1.ctxs[node].prev)]
        s3 == [s2 EXCEPT !.ctxs[node].prev = 0, !.ctxs[node].next = 0]
    IN IF upgrade(prev) # 0 /\ prev = B THEN Panic(t1, B)
       ELSE IF next # 0 /\ next = B THEN Panic(t2, B)
       ELSE Done(s3, B, TRUE, taken.filter, node)

remove(s, B, name) ==
    IF ScanConflict(s, B, name) THEN Panic(s, B)
    ELSE LET node == ScanNode(s, name) IN
         IF node = 0 THEN Done(s, B, FALSE, NoFilter, 0)
         ELSE remove_unlink(s, B, node)

find(s, B, name) ==
    IF ScanConflict(s, B, name) THEN Panic(s, B)
    ELSE LET node == ScanNode(s, name) IN Done(s, B, node # 0, NoFilter, node)

replace(s, B, old_name, new_name, new_filter) ==
    IF s.media_type # new_filter.kind THEN Panic(s, B)
    ELSE IF ScanConflict(s, B, old_name) THEN Panic(s, B)
    ELSE LET node == ScanNode(s, old_name) IN
         IF node = 0 THEN Done(s, B, FALSE, NoFilter, 0)
         ELSE LET swapped == replace_filter(s.ctxs[node], new_filter)
                  s0 == [s EXCEPT !.ctxs[node] = swapped.ctx]
                  s1 == [s0 EXCEPT !.ctxs[node].name = new_name]
              IN Done(s1, B, TRUE, swapped.filter, node)


\* ----------------------------------------------- FramePipelineBuilder
FramePipelineBuilder_new(media_type) ==
    [stream_index |-> -1, linklabel |-> NoName, media_type |-> media_type, filters |-> <<>>]

\* filter(): the assertion on the media kind, then the push.
filter(b, name, f) ==
    IF b.media_type # f.kind
    THEN [b |-> b, panic |-> TRUE]
    ELSE [b |-> [b EXCEPT !.filters = Append(@, [name |-> name, filter |-> f])],
          panic |-> FALSE]

\* build(): a new pipeline, then add_last for each registered stage; the
\* builder is consumed and its filters drained.
RECURSIVE drain(_, _)
drain(r, filters) ==
    IF filters = <<>> \/ r.panic THEN r
    ELSE drain(add_last(r.s, 0, Head(filters).name, Head(filters).filter), Tail(filters))

build(b, stream_index, linklabel) ==
    LET p == FramePipeline_new(b.media_type, stream_index, linklabel)
        s == [media_type |-> p.media_type, head |-> p.head, tail |-> p.tail,
              ctxs |-> [n \in NodeIds |-> FreeCtx], held |-> 0]
        r == drain(Done(s, 0, TRUE, NoFilter, 0), b.filters)
    IN [pipeline |-> p, s |-> r.s, panic |-> r.panic]

\* ------------------------------------------------- the plain name list
FirstIndex(l, name) ==
    LET hits == {i \in 1..Len(l) : l[i] = name}
    IN IF hits = {} THEN 0 ELSE Min(hits)

InsertAt(l, i, name) == SubSeq(l, 1, i - 1) \o <<name>> \o SubSeq(l, i, Len(l))

ListAddFirst(l, name) == <<name>> \o l
ListAddLast(l, name) == Append(l, name)
ListAddBefore(l, base, name) ==
    IF FirstIndex(l, base) = 0 THEN l ELSE InsertAt(l, FirstIndex(l, base), name)
ListAddAfter(l, base, name) ==
    IF FirstIndex(l, base) = 0 THEN l ELSE InsertAt(l, FirstIndex(l, base) + 1, name)
ListRemove(l, name) ==
    LET i == FirstIndex(l, name)
    IN IF i = 0 THEN l ELSE SubSeq(l, 1, i - 1) \o SubSeq(l, i + 1, Len(l))
ListReplace(l, old, new) ==
    LET i == FirstIndex(l, old)
    IN IF i = 0 THEN l ELSE [l EXCEPT ![i] = new]

\* ------------------------------------------------------------ the state
Chain == [media_type |-> pipeline.media_type, head |-> pipeline.head,
          tail |-> pipeline.tail, ctxs |-> ctxs, held |-> held]

HeadWalk == Walk(ctxs, pipeline.head, MaxNodes + 1)
TailWalk == WalkBack(ctxs, pipeline.tail, MaxNodes + 1)
HeadNames == NamesOf(ctxs, HeadWalk)
TailNames == NamesOf(ctxs, TailWalk)

NoCall == [op |-> "none", ok |-> FALSE, self |-> FALSE]

\* What a call leaves behind: its name, whether it found its cell, and
\* whether the cell it named is the one whose hook is making the call.
Call(op, r, name) ==
    [op |-> op, ok |-> r.ok, self |-> cur # 0 /\ ScanNode(Chain, name) = cur]

Diverged == <<"diverged">>

\* abs follows the calls for as long as the chain agrees with it; the step
\* after a disagreement it is set to Diverged and follows nothing.
Commit(op, r, name, l) ==
    /\ pipeline' = [pipeline EXCEPT !.head = r.s.head, !.tail = r.s.tail]
    /\ ctxs' = r.s.ctxs
    /\ cur' = r.B
    /\ held' = r.s.held
    /\ panicked' = r.panic
    /\ abs' = IF abs # HeadNames THEN Diverged ELSE IF r.panic THEN abs ELSE l
    /\ last' = Call(op, r, name)
    /\ UNCHANGED <<builder, built, hook, bindVars, workerVars>>

\* The NoopFilter left in a removed cell makes no call.
CanCall ==
    /\ built /\ ~panicked /\ hook # "idle"
    /\ cur # 0 => ctxs[cur].frame_filter # NoopFilter

\* -------------------------------------------------------------- actions
\* filter() is called on the builder, which pipeline_init has not yet been
\* given, with one of names, up to kmax times; abs is the list of the names
\* registered.
BuilderFilterOf(names, kmax) ==
    /\ ~built /\ ~panicked
    /\ worker.pc = "none" /\ worker.ret = "none"
    /\ Len(builder.filters) < kmax
    /\ \E name \in names : \E f \in StagesNamed(name) :
         LET r == filter(builder, name, f) IN
         /\ builder' = r.b
         /\ panicked' = r.panic
         /\ abs' = IF r.panic THEN abs ELSE Append(abs, name)
         /\ last' = [op |-> "filter", ok |-> ~r.panic, self |-> FALSE]
    /\ UNCHANGED <<built, pipeline, ctxs, cur, held, hook, bindVars, workerVars>>

BuilderFilter == BuilderFilterOf(Names, MaxBuilderFilters)

\* pipeline_init line 288, reached only with a non-empty builder (lines 31-34).
Build ==
    /\ ~built /\ ~panicked
    /\ builder.filters # <<>>
    /\ LET r == build(builder, 0, NoName) IN
       /\ pipeline' = [r.pipeline EXCEPT !.head = r.s.head, !.tail = r.s.tail]
       /\ ctxs' = r.s.ctxs
       /\ panicked' = r.panic
       /\ last' = [op |-> "build", ok |-> ~r.panic, self |-> FALSE]
    /\ built' = TRUE
    /\ abs' = [i \in 1..Len(builder.filters) |-> builder.filters[i].name]
    /\ builder' = [builder EXCEPT !.filters = <<>>]
    /\ UNCHANGED <<cur, held, hook, bindVars, workerVars>>

AddFirst ==
    /\ CanCall /\ HasFree(Chain, cur)
    /\ \E name \in Names : \E f \in StagesNamed(name) :
         Commit("add_first", add_first(Chain, cur, name, f), NoName,
                ListAddFirst(abs, name))

AddLast ==
    /\ CanCall /\ HasFree(Chain, cur)
    /\ \E name \in Names : \E f \in StagesNamed(name) :
         Commit("add_last", add_last(Chain, cur, name, f), NoName,
                ListAddLast(abs, name))

AddBefore ==
    /\ CanCall /\ HasFree(Chain, cur)
    /\ \E base_name \in Names, name \in Names : \E f \in StagesNamed(name) :
         Commit("add_before", add_before(Chain, cur, base_name, name, f), base_name,
                ListAddBefore(abs, base_name, name))

AddAfter ==
    /\ CanCall /\ HasFree(Chain, cur)
    /\ \E base_name \in Names, name \in Names : \E f \in StagesNamed(name) :
         Commit("add_after", add_after(Chain, cur, base_name, name, f), base_name,
                ListAddAfter(abs, base_name, name))

Remove ==
    /\ CanCall
    /\ \E name \in Names :
         Commit("remove", remove(Chain, cur, name), name,
                ListRemove(abs, name))

Find ==
    /\ CanCall
    /\ \E name \in Names :
         Commit("find", find(Chain, cur, name), name, abs)

Replace ==
    /\ CanCall
    /\ \E old_name \in Names, new_name \in Names : \E f \in StagesNamed(new_name) :
         Commit("replace", replace(Chain, cur, old_name, new_name, f), old_name,
                ListReplace(abs, old_name, new_name))

\* The attribute calls; last tells the call and what it returned.
SetAttribute ==
    /\ built /\ ~panicked
    /\ \E key \in AttrKeys, T \in AttrTypes, value \in AttrValues :
         /\ pipeline' = set_attribute(pipeline, T, key, value)
         /\ last' = [op |-> "set_attribute", key |-> key, type |-> T, ret |-> NoValue]
    /\ UNCHANGED <<builder, built, ctxs, cur, held, hook, abs, panicked, bindVars, workerVars>>

GetAttribute ==
    /\ built /\ ~panicked
    /\ \E key \in AttrKeys, T \in AttrTypes :
         last' = [op |-> "get_attribute", key |-> key, type |-> T,
                  ret |-> get_attribute(pipeline, T, key)]
    /\ UNCHANGED <<builder, built, pipeline, ctxs, cur, held, hook, abs, panicked, bindVars,
                   workerVars>>

RemoveAttribute ==
    /\ built /\ ~panicked
    /\ \E key \in AttrKeys, T \in AttrTypes :
         LET r == remove_attribute(pipeline, T, key) IN
         /\ pipeline' = r.p
         /\ last' = [op |-> "remove_attribute", key |-> key, type |-> T, ret |-> r.ret]
    /\ UNCHANGED <<builder, built, ctxs, cur, held, hook, abs, panicked, bindVars, workerVars>>

\* ------------------------------------------------------ worker hooks
\* do_filter_frame and do_request_frame hold a RefMut on the cell and on
\* its stage for as long as the hook runs; the pipeline itself is not
\* borrowed.  The chain calls above, made from inside the hook through
\* context.pipeline(), run with that cell as B.
EnterHook(h, c) ==
    /\ cur' = c
    /\ hook' = h
    /\ UNCHANGED <<builder, built, pipeline, ctxs, held, abs, last, panicked, bindVars,
                   workerVars>>

\* The worker goes on to hook h of cell c, holding cell hd for its pull
\* pass (h = "idle", c = 0: between two passes); the references it let go
\* of free the cells nothing else keeps.
MoveTo(h, c, hd) ==
    LET k == Collect([Chain EXCEPT !.held = hd], c, 0)
    IN /\ cur' = k.B
       /\ held' = k.s.held
       /\ hook' = h
       /\ ctxs' = k.s.ctxs
       /\ pipeline' = [pipeline EXCEPT !.head = k.s.head, !.tail = k.s.tail]
       /\ UNCHANGED <<builder, built, abs, last, panicked, bindVars, workerVars>>

\* run_pipeline lines 374-380: the pull pass starts at head, and holds
\* the cell it asks.
PullStart ==
    IF pipeline.head = 0 THEN MoveTo("idle", 0, 0)
    ELSE MoveTo("request_frame", pipeline.head, pipeline.head)

\* What a hook may give: the NoopFilter left in a removed cell produces
\* nothing and passes a frame on; any other stage may give a frame or not.
Given(h, c) ==
    IF ctxs[c].frame_filter # NoopFilter THEN BOOLEAN
    ELSE IF h = "request_frame" THEN {FALSE} ELSE {TRUE}

\* run_pipeline line 355: a received frame enters at head.
DoFilterFrameEnter ==
    /\ built /\ ~panicked
    /\ hook = "idle"
    /\ pipeline.head # 0
    /\ EnterHook("filter_frame", pipeline.head)

\* The transform hook returns (run_filter_frame lines 420-430): the frame
\* goes on to the cell's next-link as read after the hook (line 531);
\* when the frame is dropped or has passed the last cell, the pull pass
\* asks the cell it holds again (line 382), or starts (line 374) when the
\* frame was a received one.
DoFilterFrameReturn ==
    /\ built /\ ~panicked
    /\ hook = "filter_frame"
    /\ \E frame \in Given("filter_frame", cur) :
         LET next == ctxs[cur].next
         IN IF frame /\ next # 0 THEN MoveTo("filter_frame", next, held)
            ELSE IF held # 0 THEN MoveTo("request_frame", held, held)
            ELSE PullStart

\* run_pipeline lines 343-374: no frame was received in this round; the
\* pull pass starts.
DoRequestFrameEnter ==
    /\ built /\ ~panicked
    /\ hook = "idle"
    /\ pipeline.head # 0
    /\ PullStart

\* The produce hook of the held cell returns (lines 382-399).  A frame
\* goes to the cell's next-link as read after the hook (line 556), or
\* straight out when there is none, and the same cell is asked again; no
\* frame ends the cell's turn, and the pass goes on with the next-link the
\* held cell has by then (line 399), in the chain or not.
DoRequestFrameReturn ==
    /\ built /\ ~panicked
    /\ hook = "request_frame"
    /\ \E frame \in Given("request_frame", cur) :
         LET next == ctxs[held].next
         IN IF frame
            THEN IF next # 0 THEN MoveTo("filter_frame", next, held)
                 ELSE MoveTo("request_frame", held, held)
            ELSE IF next # 0 THEN MoveTo("request_frame", next, next)
                 ELSE MoveTo("idle", 0, 0)

\* ------------------------------------------------- binding resolution
Labels == {"0:v", "1:a"}

\* The capacity every channel is created with: crossbeam_channel::bounded(8).
ChannelCapacity == 8

\* crossbeam_channel::bounded(cap): a channel of cap slots with nothing
\* queued, its Sender and its Receiver.  Beside the channel the record
\* keeps how many units were sent into it and what the last receive on it
\* reported.
bounded(cap) == [cap |-> cap, q |-> 0, snd |-> TRUE, sent |-> 0, recv |-> "none"]

\* Position of the first stream of the table for which the test holds
\* (Iterator::find), 0 if there is none.
FirstPos(streams, Test(_)) ==
    LET hits == {i \in 1..Len(streams) : Test(streams[i])}
    IN IF hits = {} THEN 0 ELSE Min(hits)

\* Mutant of replace_dsts: the new destination is pushed beside the old ones.
replace_dsts_push(stream, new_dsts) ==
    [stream |-> [stream EXCEPT !.dsts = Append(stream.dsts, new_dsts)], old |-> stream.dsts]

\* DecoderStream::replace_dsts: the old destinations out, the new one in.
replace_dsts(stream, new_dsts) ==
    [stream |-> [stream EXCEPT !.dsts = <<new_dsts>>], old |-> stream.dsts]

\* EncoderStream::replace_src: the old source out, the new one in.
replace_src(stream, new_src) ==
    [stream |-> [stream EXCEPT !.src = new_src], old |-> stream.src]

\* Mutant of match_pos: the label is consulted before the index.
match_pos_label_first(b, streams) ==
    IF b.linklabel # NoName
    THEN LET ByLabel(st) == st.linklabel = b.linklabel IN FirstPos(streams, ByLabel)
    ELSE IF b.stream_index # -1
    THEN LET ByIndex(st) == st.stream_index = b.stream_index IN FirstPos(streams, ByIndex)
    ELSE LET ByType(st) == st.codec_type = b.media_type IN FirstPos(streams, ByType)

\* The position match_decoder_stream / match_encoder_stream looks up:
\* by index if the builder has one, else by label if it has one, else by
\* media kind.
match_pos(b, streams) ==
    IF b.stream_index # -1
    THEN LET ByIndex(st) == st.stream_index = b.stream_index IN FirstPos(streams, ByIndex)
    ELSE IF b.linklabel = NoName
    THEN LET ByType(st) == st.codec_type = b.media_type IN FirstPos(streams, ByType)
    ELSE LET ByLabel(st) == st.linklabel = b.linklabel IN FirstPos(streams, ByLabel)

match_err(b) ==
    IF b.stream_index # -1 THEN "FrameFilterStreamTypeNoMatched"
    ELSE IF b.linklabel = NoName THEN "FrameFilterTypeNoMatched"
    ELSE "FrameFilterLinkLabelNoMatched"

\* The label returned: the stream's on the index and the kind path, the
\* builder's on the label path.
match_linklabel(b, stream) ==
    IF b.stream_index = -1 /\ b.linklabel # NoName THEN b.linklabel ELSE stream.linklabel

\* Mutant of match_decoder_stream: the channel is created before the lookup.
match_decoder_stream_channel_first(b, streams, chan) ==
    LET pos == match_pos(b, streams) IN
    IF pos = 0
    THEN [ok |-> FALSE, err |-> match_err(b), streams |-> streams, pos |-> 0,
          stream_index |-> -1, linklabel |-> NoName, receiver |-> 0, senders |-> <<>>,
          fg_input_index |-> 0, nchan |-> chan + 1, capacity |-> 0]
    ELSE LET rep == replace_dsts(streams[pos], chan + 1) IN
         [ok |-> TRUE, err |-> "none", streams |-> [streams EXCEPT ![pos] = rep.stream],
          pos |-> pos,
          stream_index |-> streams[pos].stream_index,
          linklabel |-> match_linklabel(b, streams[pos]),
          receiver |-> chan + 1, senders |-> rep.old,
          fg_input_index |-> streams[pos].fg_input_index, nchan |-> chan + 1,
          capacity |-> ChannelCapacity]

match_decoder_stream(b, streams, chan) ==
    LET pos == match_pos(b, streams) IN
    IF pos = 0
    THEN [ok |-> FALSE, err |-> match_err(b), streams |-> streams, pos |-> 0,
          stream_index |-> -1, linklabel |-> NoName, receiver |-> 0, senders |-> <<>>,
          fg_input_index |-> 0, nchan |-> chan, capacity |-> 0]
    ELSE LET rep == replace_dsts(streams[pos], chan + 1) IN
         [ok |-> TRUE, err |-> "none", streams |-> [streams EXCEPT ![pos] = rep.stream],
          pos |-> pos,
          stream_index |-> streams[pos].stream_index,
          linklabel |-> match_linklabel(b, streams[pos]),
          receiver |-> chan + 1, senders |-> rep.old,
          fg_input_index |-> streams[pos].fg_input_index, nchan |-> chan + 1,
          capacity |-> ChannelCapacity]

match_encoder_stream(b, streams, chan) ==
    LET pos == match_pos(b, streams) IN
    IF pos = 0
    THEN [ok |-> FALSE, err |-> match_err(b), streams |-> streams, pos |-> 0,
          stream_index |-> -1, linklabel |-> NoName, receiver |-> 0, senders |-> <<>>,
          fg_input_index |-> 0, nchan |-> chan, capacity |-> 0]
    ELSE LET rep == replace_src(streams[pos], chan + 1) IN
         [ok |-> TRUE, err |-> "none", streams |-> [streams EXCEPT ![pos] = rep.stream],
          pos |-> pos,
          stream_index |-> streams[pos].stream_index,
          linklabel |-> match_linklabel(b, streams[pos]),
          receiver |-> rep.old, senders |-> <<chan + 1>>,
          fg_input_index |-> 0, nchan |-> chan + 1, capacity |-> ChannelCapacity]

\* DecoderStream::new (lines 72-73): no source, no destinations.
DecoderStream_new(stream_index, codec_type, linklabel) ==
    [stream_index |-> stream_index, linklabel |-> linklabel, codec_type |-> codec_type,
     fg_input_index |-> 0, src |-> 0, dsts |-> <<>>]

\* DecoderStream::is_used: src.is_some().
is_used(stream) == stream.src # 0

\* DecoderStream::set_src.
set_src(stream, src) == [stream EXCEPT !.src = src]

\* Mutant of connect_stream: the stream is connected whether it is in use
\* or not.
connect_stream_unchecked(d, index, chan) ==
    [streams |-> [d.streams EXCEPT ![index + 1] = set_src(@, chan + 1)],
     dsts |-> Append(d.dsts, [sender |-> chan + 1, index |-> index, out |-> -1]),
     nchan |-> chan + 1, made |-> <<bounded(ChannelCapacity)>>]

\* Demuxer::connect_stream(index) on the demuxer d (its streams and its
\* dsts); chan is the number of channels that exist.  An entry of dsts is
\* (sender, stream index, output index), out = -1 standing for None; made
\* lists the channels the call has created (line 198: bounded(8)).
connect_stream(d, index, chan) ==
    IF is_used(d.streams[index + 1])
    THEN [streams |-> d.streams, dsts |-> d.dsts, nchan |-> chan, made |-> <<>>]
    ELSE [streams |-> [d.streams EXCEPT ![index + 1] = set_src(@, chan + 1)],
          dsts |-> Append(d.dsts, [sender |-> chan + 1, index |-> index, out |-> -1]),
          nchan |-> chan + 1, made |-> <<bounded(ChannelCapacity)>>]

\* The demuxer as the state holds it.
Demuxer == [streams |-> decoder_streams, dsts |-> dsts]

ConnectStream ==
    /\ nchan < MaxDsts
    /\ \E index \in 0..(Len(decoder_streams) - 1) :
         LET r == connect_stream(Demuxer, index, nchan) IN
         /\ decoder_streams' = r.streams
         /\ dsts' = r.dsts
         /\ nchan' = r.nchan
         /\ packets' = IF r.made = <<>> THEN packets
                       ELSE packets @@ (r.nchan :> r.made[1])
    /\ UNCHANGED <<chainVars, encoder_streams, bind, bound_chains, graphVars, workerVars>>

\* Demuxer::add_packet_dst: the entry (sender, input stream index,
\* Some(output stream index)) is pushed.
add_packet_dst(d, packet_dst, input_stream_index, output_stream_index) ==
    [d EXCEPT !.dsts = Append(@, [sender |-> packet_dst, index |-> input_stream_index,
                                  out |-> output_stream_index])]

\* A packet destination is added for a stream that is copied to an output
\* stream; its caller has made the channel.
AddPacketDst ==
    /\ nchan < MaxDsts
    /\ \E index \in 0..(Len(decoder_streams) - 1), out \in 0..(MaxStreams - 1) :
         dsts' = add_packet_dst(Demuxer, nchan + 1, index, out).dsts
    /\ nchan' = nchan + 1
    /\ UNCHANGED <<chainVars, decoder_streams, encoder_streams, bind, bound_chains, graphVars,
                   packets, workerVars>>

\* DecoderStream::add_dst: the sender is pushed onto the stream's
\* destinations.
add_dst(stream, frame_dst) == [stream EXCEPT !.dsts = Append(@, frame_dst)]

\* A frame destination is added to a stream; its caller has made the
\* channel.
AddDst ==
    /\ nchan < MaxDsts
    /\ \E i \in DOMAIN decoder_streams :
         decoder_streams' = [decoder_streams EXCEPT ![i] = add_dst(@, nchan + 1)]
    /\ nchan' = nchan + 1
    /\ UNCHANGED <<chainVars, encoder_streams, dsts, bind, bound_chains, graphVars, packets,
                   workerVars>>

\* DecoderStream::take_dsts: the destinations out, none left.
take_dsts(stream) == [stream |-> [stream EXCEPT !.dsts = <<>>], dsts |-> stream.dsts]

\* The decoder takes the destinations of its stream.
StreamTakeDsts ==
    /\ \E i \in DOMAIN decoder_streams :
         /\ decoder_streams[i].dsts # <<>>
         /\ decoder_streams' = [decoder_streams EXCEPT ![i] = take_dsts(@).stream]
    /\ UNCHANGED <<chainVars, encoder_streams, nchan, dsts, bind, bound_chains, graphVars, packets,
                   workerVars>>

\* DecoderStream::take_src: the decoder takes the stream's source.
TakeSrc ==
    /\ \E i \in DOMAIN decoder_streams :
         /\ is_used(decoder_streams[i])
         /\ decoder_streams' = [decoder_streams EXCEPT ![i].src = 0]
    /\ UNCHANGED <<chainVars, encoder_streams, nchan, dsts, bind, bound_chains, graphVars,
                   packets, workerVars>>

\* Demuxer::take_dsts: the demuxer thread takes the destinations.
TakeDsts ==
    /\ dsts # <<>>
    /\ dsts' = <<>>
    /\ UNCHANGED <<chainVars, decoder_streams, encoder_streams, nchan, bind, bound_chains,
                   graphVars, packets, workerVars>>

\* The demuxer thread sends a packet into the channel of a connection
\* (Sender::send): the send returns once the channel has a free slot.
PacketSend ==
    /\ \E c \in DOMAIN packets :
         /\ packets[c].snd
         /\ packets[c].sent < MaxBurst
         /\ packets[c].q < packets[c].cap
         /\ packets' = [packets EXCEPT ![c].q = @ + 1, ![c].sent = @ + 1,
                                       ![c].recv = "none"]
    /\ UNCHANGED <<chainVars, decoder_streams, encoder_streams, nchan, dsts, bind,
                   bound_chains, graphVars, workerVars>>

\* The decoder thread receives on the receiver of a connection
\* (Receiver::recv_timeout): a queued packet, else disconnected when the
\* sender has been dropped, else nothing within the timeout.
PacketRecv ==
    /\ \E c \in DOMAIN packets :
         packets' = [packets EXCEPT
                       ![c].q = IF @ > 0 THEN @ - 1 ELSE @,
                       ![c].recv = IF packets[c].q > 0 THEN "unit"
                                   ELSE IF ~packets[c].snd THEN "disconnected"
                                   ELSE "empty"]
    /\ UNCHANGED <<chainVars, decoder_streams, encoder_streams, nchan, dsts, bind,
                   bound_chains, graphVars, workerVars>>

\* The demuxer thread ends and drops the sender of a connection.
PacketSenderDrop ==
    /\ \E c \in DOMAIN packets :
         /\ packets[c].snd
         /\ packets' = [packets EXCEPT ![c].snd = FALSE, ![c].recv = "none"]
    /\ UNCHANGED <<chainVars, decoder_streams, encoder_streams, nchan, dsts, bind,
                   bound_chains, graphVars, workerVars>>

\* ------------------------------------------------------------ FilterGraph
\* A channel as crossbeam_channel::bounded(8) creates it (lines 31 and 43):
\* one Sender handle, one Receiver handle, nothing queued.  A channel is
\* disconnected for its receiver once it has no Sender handle left.
FrameChannel == [senders |-> 1, receivers |-> 1, q |-> 0, cap |-> ChannelCapacity]

\* What the callers of FilterGraph hold: the senders get_src_sender has
\* returned (the channel of each and whether it is still held), the
\* receivers take_src has returned, how many units were sent, and what the
\* last receive reported.
NoUser == [senders |-> <<>>, receivers |-> <<>>, sent |-> 0, recv |-> "none"]

\* FilterGraph::new: src is Some of a new channel, both ends in the graph.
FilterGraph_new(chans) ==
    [graph |-> [src |-> Len(chans) + 1], chans |-> Append(chans, FrameChannel)]

\* FilterGraph::take_src on the graph g (its src and the channels that
\* exist): src.take().unwrap() panics on None; otherwise the receiver is
\* returned, src is left None and the sender of the pair is dropped.
FilterGraph_take_src(g) ==
    IF g.graph.src = 0
    THEN [ok |-> FALSE, graph |-> g.graph, chans |-> g.chans, receiver |-> 0]
    ELSE [ok |-> TRUE,
          graph |-> [g.graph EXCEPT !.src = 0],
          chans |-> [g.chans EXCEPT ![g.graph.src].senders = @ - 1],
          receiver |-> g.graph.src]

\* FilterGraph::get_src_sender: a src of None is first replaced by a new
\* channel; the sender of src is cloned and the clone returned.
FilterGraph_get_src_sender(g) ==
    LET h == IF g.graph.src = 0 THEN FilterGraph_new(g.chans) ELSE g
    IN [graph |-> h.graph,
        chans |-> [h.chans EXCEPT ![h.graph.src].senders = @ + 1],
        sender |-> h.graph.src]

\* The graph as the state holds it.
Graph == [graph |-> filter_graph, chans |-> graph_chans]

\* A graph no call has been made on yet.
NoGraph ==
    /\ filter_graph = FilterGraph_new(<<>>).graph
    /\ graph_chans = FilterGraph_new(<<>>).chans
    /\ graph_user = NoUser

\* A caller calls get_src_sender and keeps the sender.
GetSrcSender ==
    /\ ~panicked
    /\ Len(graph_user.senders) < MaxDsts
    /\ LET r == FilterGraph_get_src_sender(Graph) IN
       /\ filter_graph' = r.graph
       /\ graph_chans' = r.chans
       /\ graph_user' = [graph_user EXCEPT
                           !.senders = Append(@, [chan |-> r.sender, live |-> TRUE]),
                           !.recv = "none"]
    /\ UNCHANGED <<chainVars, decoder_streams, encoder_streams, nchan, dsts, packets, bind,
                   bound_chains, workerVars>>

\* A caller calls take_src and keeps the receiver; the call panics when src
\* is None.
GraphTakeSrc ==
    /\ ~panicked
    /\ Len(graph_user.receivers) < MaxSinks
    /\ LET r == FilterGraph_take_src(Graph) IN
       /\ panicked' = ~r.ok
       /\ filter_graph' = r.graph
       /\ graph_chans' = r.chans
       /\ graph_user' = [graph_user EXCEPT
                           !.receivers = IF r.ok THEN Append(@, r.receiver) ELSE @,
                           !.recv = "none"]
    /\ UNCHANGED <<builder, built, pipeline, ctxs, cur, held, hook, abs, last,
                   decoder_streams, encoder_streams, nchan, dsts, packets, bind, bound_chains,
                   workerVars>>

\* A caller drops a sender it was handed.
DropSender ==
    /\ ~panicked
    /\ \E i \in DOMAIN graph_user.senders :
         /\ graph_user.senders[i].live
         /\ graph_chans' = [graph_chans EXCEPT ![graph_user.senders[i].chan].senders = @ - 1]
         /\ graph_user' = [graph_user EXCEPT !.senders[i].live = FALSE, !.recv = "none"]
    /\ UNCHANGED <<chainVars, filter_graph, decoder_streams, encoder_streams, nchan, dsts, packets,
                   bind, bound_chains, workerVars>>

\* A caller sends a unit on a sender it holds (Sender::try_send: the unit is
\* queued when the channel has room), if the callers have sent fewer than
\* limit units.
SendFrameUpTo(limit) ==
    /\ ~panicked
    /\ graph_user.sent < limit
    /\ \E i \in DOMAIN graph_user.senders :
         LET c == graph_user.senders[i].chan IN
         /\ graph_user.senders[i].live
         /\ graph_chans[c].q < graph_chans[c].cap
         /\ graph_chans' = [graph_chans EXCEPT ![c].q = @ + 1]
         /\ graph_user' = [graph_user EXCEPT !.sent = @ + 1, !.recv = "none"]
    /\ UNCHANGED <<chainVars, filter_graph, decoder_streams, encoder_streams, nchan, dsts, packets,
                   bind, bound_chains, workerVars>>

SendFrame == SendFrameUpTo(MaxUnits)

\* A caller receives on a receiver take_src returned (Receiver::try_recv):
\* a queued unit, else disconnected when no sender is left, else empty.
RecvFrame ==
    /\ ~panicked
    /\ \E j \in DOMAIN graph_user.receivers :
         LET c == graph_user.receivers[j] IN
         /\ graph_chans' = [graph_chans EXCEPT ![c].q = IF @ > 0 THEN @ - 1 ELSE @]
         /\ graph_user' = [graph_user EXCEPT
                             !.recv = IF graph_chans[c].q > 0 THEN "unit"
                                      ELSE IF graph_chans[c].senders = 0 THEN "disconnected"
                                      ELSE "empty"]
    /\ UNCHANGED <<chainVars, filter_graph, decoder_streams, encoder_streams, nchan, dsts, packets,
                   bind, bound_chains, workerVars>>

\* No stream table, and no binding made yet.
NoStreams == <<>>
NoBind == [side |-> "none", ok |-> FALSE, err |-> "none", pos |-> 0,
           stream_index |-> -1, linklabel |-> NoName,
           receiver |-> 0, senders |-> <<>>, fg_input_index |-> 0,
           capacity |-> 0, spawned |-> FALSE, ret |-> "none"]

\* pipeline_init: the worker thread is spawned; a spawn the system refuses
\* is reported as FrameFilterThreadExited (lines 317-320).
pipeline_init(spawn_ok) ==
    [spawned |-> spawn_ok, ret |-> IF spawn_ok THEN "Ok" ELSE "FrameFilterThreadExited"]

\* What input_pipeline_init / output_pipeline_init leave behind: the match,
\* and pipeline_init's outcome when the match succeeded (the ? of lines 38
\* and 69 returns the error of a failed match before pipeline_init).
Bound(side, r, spawn_ok) ==
    LET th == IF r.ok THEN pipeline_init(spawn_ok) ELSE [spawned |-> FALSE, ret |-> r.err]
    IN [side |-> side, ok |-> r.ok, err |-> r.err, pos |-> r.pos,
        stream_index |-> r.stream_index, linklabel |-> r.linklabel,
        receiver |-> r.receiver, senders |-> r.senders,
        fg_input_index |-> r.fg_input_index, capacity |-> r.capacity,
        spawned |-> th.spawned, ret |-> th.ret]

\* Mutant of input_pipeline_init: the builder is matched whether it has
\* filters or not.
input_pipeline_init_unguarded(b, streams, chan, spawn_ok) ==
    LET r == match_decoder_stream(b, streams, chan)
    IN [streams |-> r.streams, nchan |-> r.nchan, bind |-> Bound("input", r, spawn_ok)]

\* input_pipeline_init (lines 23-53): with no filters it returns Ok at once
\* (lines 31-34); else the builder is matched against the demuxer's
\* streams and the worker is spawned.
input_pipeline_init(b, streams, chan, spawn_ok) ==
    IF b.filters = <<>>
    THEN [streams |-> streams, nchan |-> chan,
          bind |-> [NoBind EXCEPT !.side = "input", !.ret = "Ok"]]
    ELSE LET r == match_decoder_stream(b, streams, chan)
         IN [streams |-> r.streams, nchan |-> r.nchan,
             bind |-> Bound("input", r, spawn_ok)]

\* output_pipeline_init (lines 54-84): the same against the muxer's streams.
output_pipeline_init(b, streams, chan, spawn_ok) ==
    IF b.filters = <<>>
    THEN [streams |-> streams, nchan |-> chan,
          bind |-> [NoBind EXCEPT !.side = "output", !.ret = "Ok"]]
    ELSE LET r == match_encoder_stream(b, streams, chan)
         IN [streams |-> r.streams, nchan |-> r.nchan,
             bind |-> Bound("output", r, spawn_ok)]

\* The chains bound, after a binding: a binding that matched a stream adds
\* the chain it made (the stream, the receiver and the senders handed to
\* pipeline_init, and whether its worker was spawned).
chains_after(chains, b) ==
    IF b.ok
    THEN Append(chains, [side |-> b.side, pos |-> b.pos, receiver |-> b.receiver,
                         senders |-> b.senders, spawned |-> b.spawned])
    ELSE chains

\* input_pipeline_init is called with the builder b.
InputPipelineInit(b) ==
    /\ \E spawn_ok \in BOOLEAN :
       LET r == input_pipeline_init(b, decoder_streams, nchan, spawn_ok) IN
       /\ builder' = b
       /\ decoder_streams' = r.streams
       /\ nchan' = r.nchan
       /\ bind' = r.bind
       /\ bound_chains' = chains_after(bound_chains, r.bind)
    /\ UNCHANGED <<built, pipeline, ctxs, cur, held, hook, abs, last, panicked,
                   encoder_streams, dsts, graphVars, packets, workerVars>>

MatchDecoderStream ==
    /\ bind.side = "none"
    /\ InputPipelineInit(builder)

\* One more builder, addressing a stream by its index or (index -1) by its
\* media kind, is bound to the demuxer after the builders before it.
MatchDecoderStreamInTurn ==
    /\ Len(bound_chains) < MaxWorkers
    /\ \E idx \in -1..(MaxStreams - 1) :
         InputPipelineInit([stream_index |-> idx, linklabel |-> NoName,
                            media_type |-> "video",
                            filters |-> <<[name |-> "a",
                                           filter |-> [id |-> "a", kind |-> "video"]]>>])

MatchEncoderStream ==
    /\ bind.side = "none"
    /\ \E spawn_ok \in BOOLEAN :
       LET r == output_pipeline_init(builder, encoder_streams, nchan, spawn_ok) IN
       /\ encoder_streams' = r.streams
       /\ nchan' = r.nchan
       /\ bind' = r.bind
       /\ bound_chains' = chains_after(bound_chains, r.bind)
    /\ UNCHANGED <<builder, built, pipeline, ctxs, cur, held, hook, abs, last, panicked,
                   decoder_streams, dsts, graphVars, packets, workerVars>>

\* ------------------------------------------------------- chain worker
\* A unit (Frame): what it carries (id), whether it has a data buffer
\* (buf[0] non-null), the stages whose transform hook has been called on it
\* (via), and the stage whose produce hook returned it (by).
NoUnit == [id |-> 0, buf |-> FALSE, via |-> <<>>, by |-> NoName]

\* A frame taken from the pool is blank.
PoolFrame == NoUnit

\* av_frame_ref: dst becomes a new reference to everything src holds.
av_frame_ref(dst, src) == src

\* av_frame_copy_props: only the properties are copied, dst keeps its buffer.
av_frame_copy_props(dst, src) == [src EXCEPT !.buf = dst.buf]

\* Line 448: the error frame_pool.get() returns when the pool has no frame
\* to give; the ? hands it on as it is.
PoolError == "ObjPool::get"

\* Lines 448-465: the duplicate made for a destination that is not the last.
dup_frame(frame) ==
    IF frame.buf THEN av_frame_ref(PoolFrame, frame)
    ELSE av_frame_copy_props(PoolFrame, frame)

RECURSIVE Repeat(_, _)
Repeat(x, n) == IF n = 0 THEN <<>> ELSE <<x>> \o Repeat(x, n - 1)

\* A unit another sender has sent into a channel the worker sends into:
\* the inputs of a filter graph share one channel (get_src_sender).
OtherUnit == [id |-> 0, buf |-> TRUE, via |-> <<>>, by |-> "other"]

\* A channel to a consumer, the source channel of a filter graph: the units
\* sent into it, in order, whether the receiver is still there, whether the
\* receiver was dropped while the worker still held the sender, and the
\* capacity it was created with.
NewChannel == [q |-> <<>>, open |-> TRUE, early |-> FALSE, cap |-> FrameChannel.cap]

\* The channel from the producer: the units in flight, whether the worker
\* still holds the receiver, whether the producer still holds the sender,
\* how many units the producer has sent, how many units the run has in
\* all, and the capacity binding has created it with (lines 110, 136, 156,
\* 197, 222 and 242).
NewUpstream == [q |-> <<>>, open |-> TRUE, snd |-> TRUE, sent |-> 0, limit |-> MaxUnits,
                cap |-> ChannelCapacity]

\* The shared error slot: the error and the worker that wrote it.
NoResult == [w |-> 0, err |-> "none"]

\* Mutant of Full: a channel without bound.
Full_never(dn, ch) == FALSE

\* Sender::send into channel ch does not return: the channel holds as many
\* units as it can and its receiver is there.
Full(dn, ch) == dn[ch].open /\ Len(dn[ch].q) >= dn[ch].cap

\* Sender::send once it returns: fails iff the receiver has been dropped.
send(dn, ch, unit) ==
    IF dn[ch].open
    THEN [ok |-> TRUE, down |-> [dn EXCEPT ![ch].q = Append(@, unit)]]
    ELSE [ok |-> FALSE, down |-> dn]

\* Vec::remove(i) with i counted from 0.
vec_remove(v, i) == SubSeq(v, 1, i) \o SubSeq(v, i + 2, Len(v))

\* Lines 499-501: the recorded positions are removed one after another from
\* the list as the removals so far have left it; Vec::remove panics on a
\* position that is not in the list.
RECURSIVE remove_finished(_, _)
remove_finished(senders, finished) ==
    IF finished = <<>> THEN [senders |-> senders, panic |-> FALSE]
    ELSE IF Head(finished) >= Len(senders) THEN [senders |-> senders, panic |-> TRUE]
    ELSE remove_finished(vec_remove(senders, Head(finished)), Tail(finished))

\* Mutant of send_from: every destination gets a duplicate, the last too.
RECURSIVE send_from_dup_all(_, _, _, _, _)
send_from_dup_all(senders, frame, oom_at, i, acc) ==
    IF i > Len(senders) THEN acc
    ELSE IF i = oom_at THEN [acc EXCEPT !.err = "FrameFilterSendOOM"]
    ELSE IF i = -oom_at THEN [acc EXCEPT !.err = PoolError]
    ELSE LET r == send(acc.down, senders[i], dup_frame(frame))
             a == [acc EXCEPT !.down = r.down, !.dups = @ + 1,
                              !.finished = IF r.ok THEN @ ELSE Append(@, i - 1)]
         IN send_from_dup_all(senders, frame, oom_at, i + 1, a)

\* Lines 446-497, from position i (counted from 1) on, as far as the thread
\* gets without waiting.  oom_at is the position at which filling the
\* duplicate fails (lines 456 and 462), or, negated, the position at which
\* the pool gives no frame for it (line 448); 0: nowhere.  The walk stops
\* at the first sender whose send (line 470 or 484) does not return, and
\* records its position in at: the sends before it have been made, the
\* duplicate for it too.
RECURSIVE send_from(_, _, _, _, _)
send_from(senders, frame, oom_at, i, acc) ==
    IF i > Len(senders) THEN acc
    ELSE IF i < Len(senders)
    THEN IF i = oom_at THEN [acc EXCEPT !.err = "FrameFilterSendOOM"]
         ELSE IF i = -oom_at THEN [acc EXCEPT !.err = PoolError]
         ELSE IF Full(acc.down, senders[i]) THEN [acc EXCEPT !.at = i]
         ELSE LET r == send(acc.down, senders[i], dup_frame(frame))
                  a == [acc EXCEPT !.down = r.down, !.dups = @ + 1,
                                   !.finished = IF r.ok THEN @ ELSE Append(@, i - 1)]
              IN send_from(senders, frame, oom_at, i + 1, a)
    ELSE IF Full(acc.down, senders[i]) THEN [acc EXCEPT !.at = i]
    ELSE LET r == send(acc.down, senders[i], frame)
         IN [acc EXCEPT !.down = r.down, !.moves = @ + 1,
                        !.finished = IF r.ok THEN @ ELSE Append(@, i - 1)]

\* Lines 445-501 of run_filter_frame from the send at position i on, part
\* telling the sends made before it: the unit is sent to the senders of the
\* list, then the senders whose send failed are removed.  at is the
\* position of the send the thread waits in (0: every send has returned).
send_rest(senders, dn, frame, oom_at, i, part) ==
    LET s == send_from(senders, frame, oom_at, i,
                       [down |-> dn, dups |-> part.dups, moves |-> part.moves,
                        finished |-> part.finished, err |-> "none", at |-> 0])
        rm == IF s.err = "none" /\ s.at = 0 THEN remove_finished(senders, s.finished)
              ELSE [senders |-> senders, panic |-> FALSE]
    IN [senders |-> rm.senders, down |-> s.down, dups |-> s.dups, moves |-> s.moves,
        finished |-> s.finished, err |-> s.err, panic |-> rm.panic, at |-> s.at]

\* Lines 445-501 of run_filter_frame.
send_all(senders, dn, frame, oom_at) ==
    send_rest(senders, dn, frame, oom_at, 1,
              [dups |-> 0, moves |-> 0, finished |-> <<>>])

NoRound == [k |-> 0, before |-> <<>>, unit |-> NoUnit, dups |-> 0, moves |-> 0,
            finished |-> <<>>, err |-> "none", panic |-> FALSE]

Round(k, senders, unit, r) ==
    [k |-> k, before |-> senders, unit |-> unit, dups |-> r.dups, moves |-> r.moves,
     finished |-> r.finished, err |-> r.err, panic |-> r.panic]

\* What a thread that waits in Sender::send has on its stack: the unit, the
\* position at of the sender in the list, the sends of lines 446-497 made so
\* far, the position at which a duplicate will fail, and where the call
\* came from (then): a round of sends by itself ("round"), line 356
\* ("recv"), or line 383 or 396 ("pull") with
\* the stage node, the i-th, whose produce hook has returned n units before
\* this one, what the produce hooks will return (yield, err_at), and what
\* the transform hooks will do with the units still to come (plans).
NoWait ==
    [at |-> 0, frame |-> NoUnit, oom_at |-> 0, dups |-> 0, moves |-> 0,
     finished |-> <<>>, then |-> "none", node |-> 0, i |-> 0, n |-> 0,
     yield |-> <<>>, err_at |-> 0, plans |-> <<>>]

IdleWorker ==
    [pc |-> "none", src_finished_flag |-> FALSE, exit |-> "none", init |-> <<>>,
     uninit |-> <<>>, recvd |-> 0, produced |-> 0, plain |-> TRUE,
     late |-> 0, wait |-> NoWait, pending |-> "none", ret |-> "none"]

NoWorker ==
    /\ scheduler_status = "RUNNING"
    /\ scheduler_result = NoResult
    /\ up = NewUpstream
    /\ down = <<>>
    /\ frame_senders = <<>>
    /\ worker = IdleWorker
    /\ round = NoRound
    /\ waited = "none"

\* A consumer drops its receiver.
SinkClose ==
    \E ch \in DOMAIN down :
        /\ down[ch].open
        /\ down' = [down EXCEPT ![ch].open = FALSE,
                                ![ch].early = ch \in SeqToSet(frame_senders)]
        /\ UNCHANGED <<chainVars, bindVars, scheduler_status, scheduler_result, up,
                       frame_senders, worker, round, waited>>

\* A consumer takes the next unit from its channel.
SinkRecv ==
    \E ch \in DOMAIN down :
        /\ down[ch].open
        /\ down[ch].q # <<>>
        /\ down' = [down EXCEPT ![ch].q = Tail(@)]
        /\ UNCHANGED <<chainVars, bindVars, scheduler_status, scheduler_result, up,
                       frame_senders, worker, round, waited>>

\* ----------------------------------------------------- the worker loop
STATUS_RUN == "RUNNING"
STATUS_PAUSE == "PAUSED"
STATUS_END == "ENDING"

\* set_scheduler_error: the slot takes the error if it is empty, and
\* run-status becomes ENDING.
set_scheduler_error(status, result, w, e) ==
    [status |-> STATUS_END,
     result |-> IF result.err = "none" THEN [w |-> w, err |-> e] ELSE result]

\* wait(): returns once every thread has been joined; the error of the slot
\* if there is one, else success.
wait(result) == IF result.err = "none" THEN "Ok" ELSE result.err

\* Lines 581-602: init is called on the stages from head on and stops at the
\* first failure.  fail_at is the position of the stage whose init fails
\* (0: none does).
RECURSIVE frame_filter_init_from(_, _, _, _, _)
frame_filter_init_from(s, node, i, fail_at, called) ==
    LET now == Append(called, s.ctxs[node].name) IN
    IF i = fail_at THEN [init |-> now, err |-> "FrameFilterInit"]
    ELSE IF s.ctxs[node].next = 0 THEN [init |-> now, err |-> "none"]
    ELSE frame_filter_init_from(s, s.ctxs[node].next, i + 1, fail_at, now)

\* Mutant of frame_filter_init: init is called a second time on the head.
frame_filter_init_head_twice(s, fail_at) ==
    frame_filter_init_from(s, s.head, 1, fail_at, <<s.ctxs[s.head].name>>)

frame_filter_init(s, fail_at) == frame_filter_init_from(s, s.head, 1, fail_at, <<>>)

\* Lines 559-579: uninit is called on the stages from head on, each cell is
\* unlinked from its successor, and head and tail are taken.  The hooks
\* are calls into the stages, so pipeline_uninit is a step up to each of
\* them.
\* Lines 560-565: head is taken, and the uninit hook of that cell, which
\* the function now holds, is entered.
pipeline_uninit(s) ==
    [s |-> [s EXCEPT !.head = 0], node |-> s.head, name |-> s.ctxs[s.head].name]

\* Lines 566-578: the uninit hook of node has returned.  The next-link of
\* the cell is taken and the cell let go of; the uninit hook of the next
\* cell is entered, or, after the last cell, tail is taken (node 0: the
\* function returns).
pipeline_uninit_from(s, node) ==
    LET next == s.ctxs[node].next
        s1 == [s EXCEPT !.ctxs[node].next = 0]
        c == Collect(IF next = 0 THEN [s1 EXCEPT !.tail = 0] ELSE s1, next, 0)
    IN [s |-> c.s, node |-> c.B,
        name |-> IF next = 0 THEN NoName ELSE s.ctxs[next].name]

\* Lines 507-532: the transform hook of one stage is called on the unit,
\* which from then on tells so (via).  out is what the hook returns: "some"
\* (a unit), "none" (no unit) or "err".
do_filter_frame(s, node, frame, out) ==
    IF out = "err"
    THEN [err |-> "FrameFilterProcess", next |-> 0, some |-> FALSE,
          frame |-> [frame EXCEPT !.via = Append(@, s.ctxs[node].name)]]
    ELSE [err |-> "none", next |-> s.ctxs[node].next, some |-> out = "some",
          frame |-> [frame EXCEPT !.via = Append(@, s.ctxs[node].name)]]

\* Lines 420-430: the unit goes from stage to stage until one returns no
\* unit or fails.  The stop-th stage met returns how; the others a unit.
RECURSIVE filter_from(_, _, _, _, _)
filter_from(s, next, frame, stop, how) ==
    IF next = 0 THEN [err |-> "none", some |-> TRUE, frame |-> frame]
    ELSE LET r == do_filter_frame(s, next, frame, IF stop = 1 THEN how ELSE "some")
         IN IF r.err # "none" \/ ~r.some
            THEN [err |-> r.err, some |-> FALSE, frame |-> r.frame]
            ELSE filter_from(s, r.next, r.frame, stop - 1, how)

\* What the hooks do during one call of run_filter_frame.
NoPlan == [stop |-> 0, how |-> "some", oom_at |-> 0]

Plans(nstages, nsenders) ==
    {NoPlan}
    \cup [stop : 1..nstages, how : {"none", "err"}, oom_at : {0}]
    \cup [stop : {0}, how : {"some"},
          oom_at : (1..(nsenders - 1)) \cup {-i : i \in 1..(nsenders - 1)}]

\* What the thread has on its stack when the sends r of the unit frame have
\* come to wait; was is what it had before them.
Waiting(was, r, frame, oom_at) ==
    IF r.at = 0 THEN NoWait
    ELSE [was EXCEPT !.at = r.at, !.frame = frame, !.oom_at = oom_at,
                     !.dups = r.dups, !.moves = r.moves, !.finished = r.finished,
                     !.then = IF was.then = "none" THEN "recv" ELSE was.then]

\* Lines 409-505, as far as the thread gets without waiting: line 417
\* returns at once when the list of senders is empty, before any hook is
\* called.  via lists the stages whose transform hook was called on the
\* unit, and wait tells the send the thread waits in, if it does.
run_filter_frame(s, frame, next, senders, dn, plan) ==
    IF Len(senders) = 0
    THEN [senders |-> senders, down |-> dn, err |-> "none", panic |-> FALSE,
          forwarded |-> FALSE, via |-> <<>>, wait |-> NoWait]
    ELSE LET f == filter_from(s, next, frame, plan.stop, plan.how) IN
         IF f.err # "none" \/ ~f.some
         THEN [senders |-> senders, down |-> dn, err |-> f.err, panic |-> FALSE,
               forwarded |-> FALSE, via |-> f.frame.via, wait |-> NoWait]
         ELSE LET r == send_all(senders, dn, f.frame, plan.oom_at)
              IN [senders |-> r.senders, down |-> r.down, err |-> r.err,
                  panic |-> r.panic, forwarded |-> r.err = "none" /\ r.at = 0,
                  via |-> f.frame.via,
                  wait |-> Waiting(NoWait, r, f.frame, plan.oom_at)]

\* Lines 470-505 once the send the thread waited in has returned: the rest
\* of the sends and the removals, as far as the thread gets without waiting
\* again.
run_filter_frame_rest(senders, dn, wt) ==
    LET r == send_rest(senders, dn, wt.frame, wt.oom_at, wt.at, wt)
    IN [senders |-> r.senders, down |-> r.down, err |-> r.err, panic |-> r.panic,
        forwarded |-> r.err = "none" /\ r.at = 0, via |-> wt.frame.via,
        wait |-> Waiting(wt, r, wt.frame, wt.oom_at)]

\* The sends r of the unit of a round have come to wait in Sender::send
\* (lines 470 and 484), with the round still to end, or have been made, and
\* the round has ended.
RoundGoes(unit, oom_at, r) ==
    /\ frame_senders' = r.senders
    /\ down' = r.down
    /\ IF r.at # 0
       THEN /\ worker' = [worker EXCEPT
                            !.pc = "send",
                            !.wait = Waiting([NoWait EXCEPT !.then = "round"], r, unit,
                                             oom_at)]
            /\ round' = round
       ELSE /\ worker' = [worker EXCEPT !.pc = "none", !.wait = NoWait]
            /\ round' = Round(round.k + 1, frame_senders, unit, r)

\* run_filter_frame with no stage left to run (next = None): a unit is
\* forwarded to the senders of the list, up to a send that has to wait
\* for a free slot; or the send the thread waited in returns, because the
\* channel has a free slot or its receiver has been dropped, and the round
\* goes on from there.
ForwardRound ==
    /\ ~round.panic /\ round.err = "none"
    /\ frame_senders # <<>>
    /\ IF worker.pc = "send"
       THEN /\ worker.wait.then = "round"
            /\ ~Full(down, frame_senders[worker.wait.at])
            /\ \E r \in {send_rest(frame_senders, down, worker.wait.frame,
                                   worker.wait.oom_at, worker.wait.at, worker.wait)} :
                 RoundGoes(worker.wait.frame, worker.wait.oom_at, r)
       ELSE /\ round.k < MaxUnits
            /\ \E buf \in BOOLEAN,
                  oom_at \in (1 - Len(frame_senders))..(Len(frame_senders) - 1) :
               \E unit \in {[id |-> round.k + 1, buf |-> buf, via |-> <<>>, by |-> NoName]} :
               \E r \in {send_all(frame_senders, down, unit, oom_at)} :
                 RoundGoes(unit, oom_at, r)
    /\ UNCHANGED <<chainVars, bindVars, scheduler_status, scheduler_result, up, waited>>

\* Lines 534-557: the produce hook of one stage; out as for the transform.
do_request_frame(s, node, out, id) ==
    IF out = "err"
    THEN [err |-> "FrameFilterRequest", next |-> 0, some |-> FALSE, frame |-> NoUnit]
    ELSE [err |-> "none", next |-> s.ctxs[node].next, some |-> out = "some",
          frame |-> [id |-> id, buf |-> TRUE, via |-> <<>>, by |-> s.ctxs[node].name]]

\* What the hooks do during one pull pass: the produce hook of the i-th
\* stage returns a unit yield[i] times (0 where yield has no entry) and
\* then nothing, or an error if i = err_at; plans[j] is what happens to the
\* j-th unit produced in the pass; a unit for which plans has no entry is
\* returned by each transform hook it meets.
NoPull == [yield |-> <<>>, err_at |-> 0, plans |-> <<>>]

YieldOf(pull, i) == IF i \in DOMAIN pull.yield THEN pull.yield[i] ELSE 0

PlanOf(pull, j) == IF j \in DOMAIN pull.plans THEN pull.plans[j] ELSE NoPlan

OneAt(nstages, at) == [i \in 1..nstages |-> IF i = at THEN 1 ELSE 0]

\* Passes in which at most one stage produces, and at most one unit.
Pulls(nstages, nsenders) ==
    {NoPull}
    \cup {[yield |-> <<>>, err_at |-> at, plans |-> <<>>] : at \in 1..nstages}
    \cup {[yield |-> OneAt(nstages, at), err_at |-> 0, plans |-> <<p>>] :
             at \in 1..nstages, p \in Plans(nstages, nsenders)}

RECURSIVE SumTo(_, _)
SumTo(f, n) == IF n = 0 THEN 0 ELSE f[n] + SumTo(f, n - 1)

\* Passes in which the stages produce up to MaxYield units in all, each of
\* which is returned, dropped or failed on by the transform hooks it meets.
PullsMany(nstages, nsenders) ==
    UNION {[yield : {y}, err_at : 0..nstages,
            plans : [1..SumTo(y, nstages) -> Plans(nstages, nsenders)]] :
           y \in {f \in [1..nstages -> 0..MaxYield] : SumTo(f, nstages) <= MaxYield}}

\* What run_filter_frame does with the unit q a produce hook has returned:
\* the stage it came from, how many senders the list held, and the stages
\* whose transform hook was called (none when line 417 returns at once).
hooks_run(q, senders, r) ==
    [by |-> q.frame.by, left |-> Len(senders), via |-> r.via]

NoPass == [senders |-> <<>>, down |-> <<>>, err |-> "none", panic |-> FALSE,
           forwarded |-> FALSE, made |-> 0, calls |-> <<>>, seen |-> <<>>,
           wait |-> NoWait]

\* Lines 373-400: the pull pass over the stages from node on, as far as the
\* thread gets without waiting; stage i has produced n units in this pass
\* so far.  The result counts the units the pass has produced (made), lists
\* the stages whose produce hook was called (calls), tells of every unit
\* produced what run_filter_frame did with it (seen), and tells the send the
\* thread waits in, if it does (wait).
RECURSIVE request_from(_, _, _, _, _, _, _)
request_from(s, node, i, n, pull, id, acc) ==
    IF node = 0 THEN acc
    ELSE LET out == IF n < YieldOf(pull, i) THEN "some"
                    ELSE IF i = pull.err_at THEN "err" ELSE "none"
             Sent(q, a) ==
                 CHOOSE res \in
                   {LET b == [a EXCEPT !.senders = r.senders, !.down = r.down,
                                       !.err = r.err, !.panic = r.panic,
                                       !.forwarded = r.forwarded, !.made = @ + 1,
                                       !.seen = Append(@, hooks_run(q, a.senders, r))]
                         c == IF r.wait.at = 0 THEN b
                              ELSE [b EXCEPT !.wait = [r.wait EXCEPT
                                       !.then = "pull", !.node = node, !.i = i,
                                       !.n = n, !.yield = pull.yield,
                                       !.err_at = pull.err_at,
                                       !.plans = SubSeq(pull.plans, a.made + 2,
                                                        Len(pull.plans))]]
                     IN IF r.err # "none" \/ r.panic \/ r.wait.at # 0
                        THEN [c EXCEPT !.forwarded = FALSE]
                        ELSE request_from(s, node, i, n + 1, pull, id, b)
                     : r \in {run_filter_frame(s, q.frame, q.next, a.senders, a.down,
                                               PlanOf(pull, a.made + 1))}} :
                   TRUE
         IN CHOOSE res \in
              {IF q.err # "none" THEN [a EXCEPT !.err = q.err]
               ELSE IF ~q.some
               THEN request_from(s, s.ctxs[node].next, i + 1, 0, pull, id, a)
               ELSE Sent(q, a)
               : q \in {do_request_frame(s, node, out, id - acc.made)},
                 a \in {[acc EXCEPT !.calls = Append(@, s.ctxs[node].name)]}} :
              TRUE

request_pass(s, senders, dn, pull, id) ==
    request_from(s, s.head, 1, 0, pull, id,
                 [NoPass EXCEPT !.senders = senders, !.down = dn])

\* Lines 373-400 once the send the thread waited in has returned: the rest
\* of run_filter_frame, then the same stage is asked again.
request_rest(s, senders, dn, wt, id) ==
    CHOOSE res \in
      {LET b == [NoPass EXCEPT !.senders = r.senders, !.down = r.down,
                               !.err = r.err, !.panic = r.panic,
                               !.forwarded = r.forwarded, !.wait = r.wait]
       IN IF r.err # "none" \/ r.panic \/ r.wait.at # 0
          THEN [b EXCEPT !.forwarded = FALSE]
          ELSE request_from(s, wt.node, wt.i, wt.n + 1,
                            [yield |-> wt.yield, err_at |-> wt.err_at,
                             plans |-> wt.plans], id, b)
       : r \in {run_filter_frame_rest(senders, dn, wt)}} :
      TRUE

\* The units the produce hooks of the stages from the j-th on have yet to
\* return in the pass the thread waits in.
RECURSIVE ToCome(_, _)
ToCome(wt, j) ==
    IF j > Len(wt.yield) THEN 0
    ELSE (IF j = wt.i THEN wt.yield[j] - (wt.n + 1) ELSE wt.yield[j])
         + ToCome(wt, j + 1)

\* The units a thread that waits has yet to produce before it is back in
\* the loop: they count among the units of the run.
YetToCome(wt) == IF wt.then = "pull" THEN ToCome(wt, wt.i) ELSE 0

\* Lines 299-313: what worker w does once run_pipeline has returned r,
\* before it finalizes the chain.
worker_exit(w, status, result, r) ==
    IF r = "Ok" THEN [status |-> status, result |-> result]
    ELSE set_scheduler_error(status, result, w, r)

\* Lines 291-296: what worker w, whose chain failed to initialize with the
\* error e, does once it has finalized the chain (e "none": the thread of
\* lines 299-314, which has escalated before).
worker_init_failed(w, status, result, e) ==
    IF e = "none" THEN [status |-> status, result |-> result]
    ELSE set_scheduler_error(status, result, w, e)

\* A panic unwinds the thread: line 314 is not reached and the chain is
\* dropped as it is.  Every cell holds a strong reference to the chain and
\* the chain holds head and tail, so nothing of it is freed: head, tail and
\* the cells stay as they were.
worker_panic(s, status, result) ==
    [status |-> status, result |-> result, s |-> s, uninit |-> <<>>]

\* The thread ends: the receiver and the senders it owns are dropped.
ThreadEnds(w, e, how) ==
    /\ worker' = [w EXCEPT !.pc = "exited", !.exit = how, !.uninit = e.uninit]
    /\ scheduler_status' = e.status
    /\ scheduler_result' = e.result
    /\ pipeline' = [pipeline EXCEPT !.head = e.s.head, !.tail = e.s.tail]
    /\ ctxs' = e.s.ctxs
    /\ frame_senders' = <<>>
    /\ up' = [up EXCEPT !.open = FALSE, !.q = <<>>]

\* run_pipeline returns r: the receiver and the senders, which it owns,
\* are dropped; the closure has yet to escalate and to finalize.
Returns(w, r) ==
    /\ worker' = [w EXCEPT !.pc = "returned", !.exit = r]
    /\ frame_senders' = <<>>
    /\ up' = [up EXCEPT !.open = FALSE, !.q = <<>>]
    /\ UNCHANGED <<scheduler_status, scheduler_result, pipeline, ctxs>>

\* What follows a call of run_filter_frame or a pull pass in run_pipeline,
\* q being what the pass has left in the upstream channel: the thread waits
\* in a send (lines 470 and 484), an error is returned (the ? of lines 363,
\* 383 and 396), the list of senders is found empty (lines 365 and 402), or
\* the loop goes on at pc.
AfterPass(w, r, pc, q) ==
    /\ down' = r.down
    /\ IF r.panic THEN ThreadEnds(w, worker_panic(Chain, scheduler_status, scheduler_result),
                                  "panic")
       ELSE IF r.wait.at # 0
       THEN /\ worker' = [w EXCEPT !.pc = "send", !.wait = r.wait]
            /\ frame_senders' = r.senders
            /\ up' = [up EXCEPT !.q = q]
            /\ UNCHANGED <<scheduler_status, scheduler_result, pipeline, ctxs>>
       ELSE IF r.err # "none" THEN Returns(w, r.err)
       ELSE IF Len(r.senders) = 0 THEN Returns(w, "Ok")
       ELSE /\ worker' = [w EXCEPT !.pc = pc]
            /\ frame_senders' = r.senders
            /\ up' = [up EXCEPT !.q = q]
            /\ UNCHANGED <<scheduler_status, scheduler_result, pipeline, ctxs>>

\* pipeline_uninit is entered by worker w on the chain p: u is what it has
\* done up to the first uninit hook, in which the thread now is.
Finalizes(w, p, u) ==
    /\ worker' = [w EXCEPT !.pc = "uninit", !.uninit = <<u.name>>]
    /\ pipeline' = [p EXCEPT !.head = u.s.head]
    /\ ctxs' = u.s.ctxs
    /\ cur' = u.node
    /\ hook' = "uninit"

\* Lines 264-323: pipeline_init is given the builder, the receiver and the
\* senders, and moves them into the closure of the thread it spawns; it is
\* called with a builder that holds a stage (lines 31-34).  When spawn
\* returns the handle, the thread owns them and pipeline_init returns Ok
\* (line 322).  When spawn is refused (lines 317-320) the closure is dropped
\* with what it captured: no thread runs, the builder, the receiver and the
\* senders are gone, and pipeline_init returns FrameFilterThreadExited.
PipelineInit ==
    /\ worker.pc = "none" /\ worker.ret = "none"
    /\ ~built /\ ~panicked
    /\ builder.filters # <<>>
    /\ \E spawned \in BOOLEAN :
         IF spawned
         THEN /\ worker' = [worker EXCEPT !.pc = "spawned", !.ret = "Ok"]
              /\ UNCHANGED <<builder, frame_senders, up>>
         ELSE /\ worker' = [worker EXCEPT !.ret = "FrameFilterThreadExited"]
              /\ builder' = [builder EXCEPT !.filters = <<>>]
              /\ frame_senders' = <<>>
              /\ up' = [up EXCEPT !.open = FALSE, !.q = <<>>]
    /\ UNCHANGED <<built, pipeline, ctxs, cur, held, hook, abs, last, panicked, bindVars,
                   scheduler_status, scheduler_result, down, round, waited>>

\* Lines 288-290: the thread starts, builds the chain and initializes it;
\* after a failure it finalizes the chain, with the error yet to escalate.
WorkerInit ==
    /\ worker.pc = "spawned"
    /\ \E fail_at \in 0..Len(builder.filters) :
         LET b == build(builder, 0, NoName)
             r == frame_filter_init(b.s, fail_at)
             w == [worker EXCEPT !.init = r.init]
         IN IF r.err # "none"
            THEN Finalizes([w EXCEPT !.exit = r.err, !.pending = r.err],
                           [b.pipeline EXCEPT !.tail = b.s.tail], pipeline_uninit(b.s))
            ELSE /\ worker' = [w EXCEPT !.pc = "top"]
                 /\ pipeline' = [b.pipeline EXCEPT !.head = b.s.head, !.tail = b.s.tail]
                 /\ ctxs' = b.s.ctxs
                 /\ UNCHANGED <<cur, hook>>
    /\ built' = TRUE
    /\ abs' = [i \in 1..Len(builder.filters) |-> builder.filters[i].name]
    /\ builder' = [builder EXCEPT !.filters = <<>>]
    /\ UNCHANGED <<scheduler_status, scheduler_result, frame_senders, up, held, last,
                   panicked, bindVars, down, round, waited>>

\* The top of a loop that does not look at run-status once it is not
\* PAUSED.
WorkerTop_unobserved ==
    /\ worker.pc = "top"
    /\ scheduler_status # STATUS_PAUSE
    /\ worker' = [worker EXCEPT
                     !.pc = IF worker.src_finished_flag THEN "pull" ELSE "recv"]
    /\ UNCHANGED <<scheduler_status, scheduler_result, pipeline, ctxs, frame_senders, up>>
    /\ UNCHANGED <<builder, built, cur, held, hook, abs, last, panicked, bindVars, down, round,
                   waited>>

\* The top of a loop that forgets that upstream has finished.
WorkerTop_recv_again ==
    /\ worker.pc = "top"
    /\ scheduler_status # STATUS_PAUSE
    /\ IF scheduler_status = STATUS_END
       THEN Returns(worker, "Ok")
       ELSE /\ worker' = [worker EXCEPT !.pc = "recv"]
            /\ UNCHANGED <<scheduler_status, scheduler_result, pipeline, ctxs,
                           frame_senders, up>>
    /\ UNCHANGED <<builder, built, cur, held, hook, abs, last, panicked, bindVars, down, round,
                   waited>>

\* The top of a loop that takes PAUSED for the end of the run.
WorkerTop_pause_ends ==
    /\ worker.pc = "top"
    /\ IF scheduler_status # STATUS_RUN
       THEN Returns(worker, "Ok")
       ELSE /\ worker' = [worker EXCEPT
                             !.pc = IF worker.src_finished_flag THEN "pull" ELSE "recv"]
            /\ UNCHANGED <<scheduler_status, scheduler_result, pipeline, ctxs,
                           frame_senders, up>>
    /\ UNCHANGED <<builder, built, cur, held, hook, abs, last, panicked, bindVars, down, round,
                   waited>>

\* Lines 335-343 and 371: the top of the loop.  wait_until_not_paused
\* returns once run-status is not PAUSED.
WorkerTop ==
    /\ worker.pc = "top"
    /\ scheduler_status # STATUS_PAUSE
    /\ IF scheduler_status = STATUS_END
       THEN Returns(worker, "Ok")
       ELSE /\ worker' = [worker EXCEPT
                             !.pc = IF worker.src_finished_flag THEN "pull" ELSE "recv"]
            /\ UNCHANGED <<scheduler_status, scheduler_result, pipeline, ctxs,
                           frame_senders, up>>
    /\ UNCHANGED <<builder, built, cur, held, hook, abs, last, panicked, bindVars, down, round,
                   waited>>

\* Lines 344-370: recv_timeout and what follows it, until the thread
\* waits in a send or is back in the loop.
WorkerRecv ==
    /\ worker.pc = "recv"
    /\ IF up.q # <<>>
       THEN \E plan \in Plans(Len(HeadWalk), Len(frame_senders)) :
              LET r == run_filter_frame(Chain, Head(up.q), pipeline.head, frame_senders,
                                        down, plan)
                  w == [worker EXCEPT !.recvd = @ + 1,
                                      !.late = IF scheduler_status = STATUS_END
                                               THEN @ + 1 ELSE @,
                                      !.plain = @ /\ plan.how # "none"]
              IN AfterPass(w, r, "pull", Tail(up.q))
       ELSE /\ worker' = IF up.snd THEN [worker EXCEPT !.pc = "pull"]
                         ELSE [worker EXCEPT !.pc = "top", !.src_finished_flag = TRUE]
            /\ UNCHANGED <<scheduler_status, scheduler_result, pipeline, ctxs,
                           frame_senders, up, down>>
    /\ UNCHANGED <<builder, built, cur, held, hook, abs, last, panicked, bindVars, round, waited>>

\* Lines 306-314: the closure after run_pipeline has returned: the error
\* is escalated, and the chain finalized up to its first uninit hook.
WorkerEnd ==
    /\ worker.pc = "returned"
    /\ \E e \in {worker_exit(1, scheduler_status, scheduler_result, worker.exit)} :
         /\ scheduler_status' = e.status
         /\ scheduler_result' = e.result
    /\ Finalizes(worker, pipeline, pipeline_uninit(Chain))
    /\ UNCHANGED <<builder, built, held, abs, last, panicked, bindVars, frame_senders, up,
                   down, round, waited>>

\* Lines 566-578, and 291-295 or 315: an uninit hook returns.  The next
\* one is entered.  After the last one, the thread of lines 299-315, whose
\* receiver and senders run_pipeline has dropped, ends; the thread whose
\* chain failed to initialize escalates the error, and still holds the
\* receiver and the senders the closure captured.
WorkerUninit ==
    /\ worker.pc = "uninit"
    /\ \E u \in {pipeline_uninit_from(Chain, cur)} :
         IF u.node # 0
         THEN /\ worker' = [worker EXCEPT !.uninit = Append(@, u.name)]
              /\ pipeline' = [pipeline EXCEPT !.head = u.s.head, !.tail = u.s.tail]
              /\ ctxs' = u.s.ctxs
              /\ cur' = u.node
              /\ UNCHANGED <<scheduler_status, scheduler_result, frame_senders, up, hook>>
         ELSE /\ IF worker.pending = "none"
                 THEN ThreadEnds(worker,
                                 [status |-> scheduler_status, result |-> scheduler_result,
                                  s |-> u.s, uninit |-> worker.uninit], worker.exit)
                 ELSE \E e \in {worker_init_failed(1, scheduler_status, scheduler_result,
                                                  worker.pending)} :
                        /\ worker' = [worker EXCEPT !.pc = "escalated", !.pending = "none"]
                        /\ scheduler_status' = e.status
                        /\ scheduler_result' = e.result
                        /\ pipeline' = [pipeline EXCEPT !.head = u.s.head,
                                                        !.tail = u.s.tail]
                        /\ ctxs' = u.s.ctxs
                        /\ UNCHANGED <<frame_senders, up>>
              /\ cur' = 0
              /\ hook' = "idle"
    /\ UNCHANGED <<builder, built, held, abs, last, panicked, bindVars, down, round,
                   waited>>

\* Line 296: the closure of the thread whose chain failed to initialize
\* returns, and the receiver and the senders it captured are dropped.
WorkerReturn ==
    /\ worker.pc = "escalated"
    /\ ThreadEnds(worker, [status |-> scheduler_status, result |-> scheduler_result,
                           s |-> Chain, uninit |-> worker.uninit], worker.exit)
    /\ UNCHANGED <<builder, built, cur, held, hook, abs, last, panicked, bindVars, down,
                   round, waited>>

\* Lines 373-405: the pull pass and the check that follows it, until the
\* thread waits in a send or is back in the loop, with the behaviour of the
\* produce hooks taken from P.
WorkerPullFrom(P) ==
    /\ worker.pc = "pull"
    /\ \E pull \in P :
         \* a pass that produces is left out at once when no unit is left
         /\ up.sent + worker.produced = up.limit =>
               \A i \in DOMAIN pull.yield :
                  pull.yield[i] = 0 \/ (pull.err_at # 0 /\ i > pull.err_at)
         /\ \E r \in {request_pass(Chain, frame_senders, down, pull, -(worker.produced + 1))} :
            /\ up.sent + worker.produced + r.made + YetToCome(r.wait) <= up.limit
            /\ AfterPass([worker EXCEPT !.produced = @ + r.made,
                                        !.plain = @ /\ r.made = 0], r, "top", up.q)
    /\ UNCHANGED <<builder, built, cur, held, hook, abs, last, panicked, bindVars, round, waited>>

WorkerPull == WorkerPullFrom(Pulls(Len(HeadWalk), Len(frame_senders)))

WorkerPullMany == WorkerPullFrom(PullsMany(Len(HeadWalk), Len(frame_senders)))

\* Lines 470 and 484: Sender::send returns to the thread that waited in it,
\* because the channel has a free slot or its receiver has been dropped,
\* and the pass goes on from there until the thread waits again or is back
\* in the loop.  The thread does not look at run-status while it waits.
\* A step of the run in which a channel fills (NextChan): in the other runs
\* fewer than ChannelCapacity units are sent in all, and no send waits.
WorkerSend ==
    /\ worker.pc = "send"
    /\ worker.wait.then \in {"recv", "pull"}
    /\ ~Full(down, frame_senders[worker.wait.at])
    /\ IF worker.wait.then = "recv"
       THEN \E r \in {run_filter_frame_rest(frame_senders, down, worker.wait)} :
              AfterPass([worker EXCEPT !.wait = NoWait], r, "pull", up.q)
       ELSE \E r \in {request_rest(Chain, frame_senders, down, worker.wait,
                                    -(worker.produced + 1))} :
              AfterPass([worker EXCEPT !.wait = NoWait, !.produced = @ + r.made],
                        r, "top", up.q)
    /\ UNCHANGED <<builder, built, cur, held, hook, abs, last, panicked, bindVars, round, waited>>

\* The producer sends the next unit; the send needs a free slot and a
\* receiver.
SourceSend ==
    /\ up.snd /\ up.open
    /\ up.sent + worker.produced + YetToCome(worker.wait) < up.limit
    /\ Len(up.q) < up.cap
    /\ up' = [up EXCEPT !.sent = @ + 1,
                        !.q = Append(@, [id |-> up.sent + 1, buf |-> TRUE, via |-> <<>>,
                                         by |-> NoName])]
    /\ UNCHANGED <<chainVars, bindVars, scheduler_status, scheduler_result, down,
                   frame_senders, worker, round, waited>>

\* The producer drops its sender.
SourceClose ==
    /\ up.snd
    /\ up' = [up EXCEPT !.snd = FALSE]
    /\ UNCHANGED <<chainVars, bindVars, scheduler_status, scheduler_result, down,
                   frame_senders, worker, round, waited>>

\* pause(), resume() and the cancellation of the run.
Pause ==
    /\ scheduler_status = STATUS_RUN /\ waited = "none"
    /\ scheduler_status' = STATUS_PAUSE
    /\ UNCHANGED <<chainVars, bindVars, scheduler_result, up, down, frame_senders, worker,
                   round, waited>>

Resume ==
    /\ scheduler_status = STATUS_PAUSE
    /\ scheduler_status' = STATUS_RUN
    /\ UNCHANGED <<chainVars, bindVars, scheduler_result, up, down, frame_senders, worker,
                   round, waited>>

End ==
    /\ scheduler_status # STATUS_END /\ waited = "none"
    /\ scheduler_status' = STATUS_END
    /\ UNCHANGED <<chainVars, bindVars, scheduler_result, up, down, frame_senders, worker,
                   round, waited>>

\* Lines 282-322: pipeline_init drops the JoinHandle that spawn returns,
\* and hands the scheduler nothing else that tells the end of the thread.
join_handle_kept == FALSE

\* The threads wait() can join have ended: the producer, the consumers,
\* and a chain worker only if its handle was kept.
Joined ==
    /\ join_handle_kept => worker.pc = "exited"
    /\ ~up.snd
    /\ \A ch \in DOMAIN down : ~down[ch].open

Wait ==
    /\ waited = "none"
    /\ Joined
    /\ waited' = wait(scheduler_result)
    /\ UNCHANGED <<chainVars, bindVars, scheduler_status, scheduler_result, up, down,
                   frame_senders, worker, round>>

\* ------------------------------------------- several workers, one slot
\* The chain of each of the workers: one stage.
ErrChain ==
    build(filter(FramePipelineBuilder_new("video"), "a", [id |-> "a", kind |-> "video"]).b,
          0, NoName).s

\* What run_pipeline returns when it fails: the error of a transform hook
\* (line 527) or of a produce hook (line 553), of a duplication (lines 456
\* and 462), or of the pool that has no frame to give (line 448).
RunErrors == {"FrameFilterProcess", "FrameFilterRequest", "FrameFilterSendOOM", PoolError}

\* A worker of a run of several: where its thread is, what it ends with,
\* the error it has yet to escalate, whether it still holds its receiver
\* and its senders (open), and how far pipeline_uninit has come on its
\* chain s.
RunningWorker(s) ==
    [pc |-> "running", exit |-> "none", pending |-> "none", open |-> TRUE,
     u |-> [s |-> s, node |-> 0, name |-> NoName]]

\* Lines 289-290: the chain of worker i failed to initialize; the worker
\* finalizes it, with the error yet to escalate.
WorkerFailsInit ==
    \E i \in DOMAIN worker :
        /\ worker[i].pc = "running"
        /\ worker' = [worker EXCEPT ![i] =
                         [@ EXCEPT !.pc = "uninit", !.exit = "FrameFilterInit",
                                   !.pending = "FrameFilterInit",
                                   !.u = pipeline_uninit(worker[i].u.s)]]
        /\ UNCHANGED <<chainVars, bindVars, scheduler_status, scheduler_result, up, down,
                       frame_senders, round, waited>>

\* Lines 299-306: run_pipeline of worker i returns r, and the receiver and
\* the senders, which it owns, are dropped.
WorkerLeaves ==
    \E i \in DOMAIN worker :
        \E r \in {"Ok"} \cup RunErrors :
            /\ worker[i].pc = "running"
            /\ worker' = [worker EXCEPT ![i] =
                             [@ EXCEPT !.pc = "returned", !.exit = r, !.open = FALSE]]
            /\ UNCHANGED <<chainVars, bindVars, scheduler_status, scheduler_result, up,
                           down, frame_senders, round, waited>>

\* Lines 306-314: worker i, whose run_pipeline has returned, escalates an
\* error and finalizes the chain up to its first uninit hook.
WorkerEscalates ==
    \E i \in DOMAIN worker :
        /\ worker[i].pc = "returned"
        /\ \E e \in {worker_exit(i, scheduler_status, scheduler_result, worker[i].exit)} :
              /\ scheduler_status' = e.status
              /\ scheduler_result' = e.result
        /\ worker' = [worker EXCEPT ![i] =
                         [@ EXCEPT !.pc = "uninit", !.u = pipeline_uninit(worker[i].u.s)]]
        /\ UNCHANGED <<chainVars, bindVars, up, down, frame_senders, round, waited>>

\* Lines 566-578, and 291-295 or 315: an uninit hook of the chain of worker
\* i returns.  The next one is entered; after the last one, the thread
\* whose run_pipeline has returned ends, and the worker whose chain failed
\* to initialize escalates the error.
WorkerUninits ==
    \E i \in DOMAIN worker :
        /\ worker[i].pc = "uninit"
        /\ \E u \in {pipeline_uninit_from(worker[i].u.s, worker[i].u.node)} :
             IF u.node # 0
             THEN /\ worker' = [worker EXCEPT ![i].u = u]
                  /\ UNCHANGED <<scheduler_status, scheduler_result>>
             ELSE IF worker[i].pending = "none"
             THEN /\ worker' = [worker EXCEPT ![i] = [@ EXCEPT !.pc = "exited", !.u = u]]
                  /\ UNCHANGED <<scheduler_status, scheduler_result>>
             ELSE \E e \in {worker_init_failed(i, scheduler_status, scheduler_result,
                                               worker[i].pending)} :
                     /\ scheduler_status' = e.status
                     /\ scheduler_result' = e.result
                     /\ worker' = [worker EXCEPT ![i] =
                                      [@ EXCEPT !.pc = "escalated", !.pending = "none",
                                                !.u = u]]
        /\ UNCHANGED <<chainVars, bindVars, up, down, frame_senders, round, waited>>

\* Line 296: the closure of worker i, whose chain failed to initialize,
\* returns, and the receiver and the senders it captured are dropped.
WorkerExits ==
    \E i \in DOMAIN worker :
        /\ worker[i].pc = "escalated"
        /\ worker' = [worker EXCEPT ![i] = [@ EXCEPT !.pc = "exited", !.open = FALSE]]
        /\ UNCHANGED <<chainVars, bindVars, scheduler_status, scheduler_result, up, down,
                       frame_senders, round, waited>>

\* wait() returns once the threads it joins have ended.  The handle of a
\* chain worker is dropped (line 322); the threads next to it, which are
\* joined, end once the worker has dropped its receiver and its senders.
WaitAll ==
    /\ waited = "none"
    /\ \A i \in DOMAIN worker :
          /\ join_handle_kept => worker[i].pc = "exited"
          /\ ~worker[i].open
    /\ waited' = wait(scheduler_result)
    /\ UNCHANGED <<chainVars, bindVars, scheduler_status, scheduler_result, up, down,
                   frame_senders, worker, round>>

NameSeq == <<"a", "b", "c">>

\* ------------------------------------------------ errors of the hooks
\* What a failing hook returns as its error: the stage implementation
\* chooses it.
Causes == {"e1", "e2"}

\* Lines 527, 553 and 589: the error a failing hook returned, wrapped in
\* the variant of the phase.
FrameFilterError(variant, e) == [variant |-> variant, cause |-> e]

\* The builder b after filter() has registered a video stage under each of
\* names.
RECURSIVE Registers(_, _)
Registers(b, names) ==
    IF names = <<>> THEN b
    ELSE Registers(filter(b, Head(names), [id |-> Head(names), kind |-> "video"]).b,
                   Tail(names))

\* The chain of each of the workers: MaxBuilderFilters stages.
WrapChain ==
    build(Registers(FramePipelineBuilder_new("video"), SubSeq(NameSeq, 1, MaxBuilderFilters)),
          0, NoName).s

\* The init, transform or produce hook of the p-th stage of the chain of
\* worker i has returned the error e: frame_filter_init returns it wrapped,
\* and the worker finalizes the chain (lines 289-290); or run_pipeline
\* returns it wrapped (lines 299-306), and its receiver and senders are
\* dropped.
WorkerHookFails ==
    \E i \in DOMAIN worker, p \in 1..MaxBuilderFilters, e \in Causes,
       phase \in {"init", "push", "pull"} :
        /\ worker[i].pc = "running"
        /\ \E s \in {worker[i].u.s} :
           \E node \in {Walk(s.ctxs, s.head, MaxNodes + 1)[p]} :
           \E variant \in
                {CASE phase = "init" -> frame_filter_init(s, p).err
                   [] phase = "push" -> do_filter_frame(s, node, NoUnit, "err").err
                   [] phase = "pull" -> do_request_frame(s, node, "err", 0).err} :
              worker' = [worker EXCEPT ![i] =
                           [pc |-> IF phase = "init" THEN "uninit" ELSE "returned",
                            exit |-> variant,
                            pending |-> IF phase = "init" THEN variant ELSE "none",
                            open |-> phase = "init",
                            u |-> IF phase = "init" THEN pipeline_uninit(s)
                                  ELSE worker[i].u,
                            phase |-> phase,
                            stage |-> s.ctxs[node].name,
                            error |-> FrameFilterError(variant, e)]]
        /\ UNCHANGED <<chainVars, bindVars, scheduler_status, scheduler_result, up, down,
                       frame_senders, round, waited>>

\* -------------------------------------------------------- specification
\* The chain called directly, as a unit test of FramePipeline does.
Init ==
    /\ builder = FramePipelineBuilder_new("video")
    /\ built = FALSE
    /\ pipeline = FramePipeline_new("unknown", 0, NoName)
    /\ ctxs = [n \in NodeIds |-> FreeCtx]
    /\ cur = 0
    /\ held = 0
    /\ hook = "none"
    /\ abs = <<>>
    /\ last = NoCall
    /\ panicked = FALSE
    /\ decoder_streams = NoStreams
    /\ encoder_streams = NoStreams
    /\ nchan = 0
    /\ dsts = <<>>
    /\ bind = NoBind
    /\ bound_chains = <<>>
    /\ NoGraph
    /\ packets = <<>>
    /\ NoWorker

Next ==
    \/ BuilderFilter
    \/ Build
    \/ AddFirst
    \/ AddLast
    \/ AddBefore
    \/ AddAfter
    \/ Remove
    \/ Find
    \/ Replace

Spec == Init /\ [][Next]_vars

\* A pipeline as FramePipeline::new leaves it, whose attributes are set,
\* read and removed in any order.
InitAttr ==
    /\ builder = FramePipelineBuilder_new("video")
    /\ built = TRUE
    /\ pipeline = FramePipeline_new("video", 0, NoName)
    /\ ctxs = [n \in NodeIds |-> FreeCtx]
    /\ cur = 0
    /\ held = 0
    /\ hook = "none"
    /\ abs = <<>>
    /\ last = [op |-> "none", key |-> NoName, type |-> "none", ret |-> NoValue]
    /\ panicked = FALSE
    /\ decoder_streams = NoStreams
    /\ encoder_streams = NoStreams
    /\ nchan = 0
    /\ dsts = <<>>
    /\ bind = NoBind
    /\ bound_chains = <<>>
    /\ NoGraph
    /\ packets = <<>>
    /\ NoWorker

NextAttr ==
    \/ SetAttribute
    \/ GetAttribute
    \/ RemoveAttribute

SpecAttr == InitAttr /\ [][NextAttr]_vars

\* The chain called directly with the operations that name a cell.
NextMiss ==
    \/ BuilderFilter
    \/ Build
    \/ AddBefore
    \/ AddAfter
    \/ Remove
    \/ Find
    \/ Replace

SpecMiss == Init /\ [][NextMiss]_vars


\* The chain driven by the worker: the chain calls are made from inside
\* the transform and produce hooks.
InitHook ==
    /\ builder = FramePipelineBuilder_new("video")
    /\ built = FALSE
    /\ pipeline = FramePipeline_new("unknown", 0, NoName)
    /\ ctxs = [n \in NodeIds |-> FreeCtx]
    /\ cur = 0
    /\ held = 0
    /\ hook = "idle"
    /\ abs = <<>>
    /\ last = NoCall
    /\ panicked = FALSE
    /\ decoder_streams = NoStreams
    /\ encoder_streams = NoStreams
    /\ nchan = 0
    /\ dsts = <<>>
    /\ bind = NoBind
    /\ bound_chains = <<>>
    /\ NoGraph
    /\ packets = <<>>
    /\ NoWorker

NextHook ==
    \/ BuilderFilter
    \/ Build
    \/ DoFilterFrameEnter
    \/ DoFilterFrameReturn
    \/ DoRequestFrameEnter
    \/ DoRequestFrameReturn
    \/ AddFirst
    \/ AddLast
    \/ AddBefore
    \/ AddAfter
    \/ Remove
    \/ Find
    \/ Replace

SpecHook == InitHook /\ [][NextHook]_vars

\* Binding resolution over every stream table of at most MaxStreams
\* streams and every builder setting.  Stream i of a table has index i - 1
\* (Demuxer::init_streams line 146).  Every decoder stream feeds ndst
\* destinations (add_dst), stream i the channels (i-1)*ndst+1 .. i*ndst;
\* encoder stream i reads from channel n*ndst + i.
StreamTables ==
    UNION {[1..n -> [codec_type : MediaTypes, linklabel : Labels \cup {NoName}]]
           : n \in 0..MaxStreams}

DecoderTable(tb, ndst) ==
    [i \in 1..Len(tb) |->
        [stream_index |-> i - 1, linklabel |-> tb[i].linklabel,
         codec_type |-> tb[i].codec_type, fg_input_index |-> 0,
         dsts |-> [j \in 1..ndst |-> (i - 1) * ndst + j]]]

EncoderTable(tb, ndst) ==
    [i \in 1..Len(tb) |->
        [stream_index |-> i - 1, linklabel |-> tb[i].linklabel,
         codec_type |-> tb[i].codec_type, src |-> Len(tb) * ndst + i]]

InitBind ==
    /\ \E k \in MediaTypes, idx \in -1..MaxStreams, lbl \in Labels \cup {NoName} :
         builder = [stream_index |-> idx, linklabel |-> lbl, media_type |-> k,
                    filters |-> <<[name |-> "a", filter |-> [id |-> "a", kind |-> k]]>>]
    /\ built = FALSE
    /\ pipeline = FramePipeline_new("unknown", 0, NoName)
    /\ ctxs = [n \in NodeIds |-> FreeCtx]
    /\ cur = 0
    /\ held = 0
    /\ hook = "idle"
    /\ abs = <<>>
    /\ last = NoCall
    /\ panicked = FALSE
    /\ \E tb \in StreamTables, ndst \in 0..MaxDsts :
         /\ decoder_streams = DecoderTable(tb, ndst)
         /\ encoder_streams = EncoderTable(tb, ndst)
         /\ nchan = Len(tb) * ndst + Len(tb)
    /\ dsts = <<>>
    /\ bind = NoBind
    /\ bound_chains = <<>>
    /\ NoGraph
    /\ packets = <<>>
    /\ NoWorker

NextBind ==
    \/ MatchDecoderStream
    \/ MatchEncoderStream

\* The same tables with a builder that has no filters.
InitBindEmpty ==
    /\ \E k \in MediaTypes, idx \in -1..MaxStreams, lbl \in Labels \cup {NoName} :
         builder = [stream_index |-> idx, linklabel |-> lbl, media_type |-> k,
                    filters |-> <<>>]
    /\ built = FALSE
    /\ pipeline = FramePipeline_new("unknown", 0, NoName)
    /\ ctxs = [n \in NodeIds |-> FreeCtx]
    /\ cur = 0
    /\ held = 0
    /\ hook = "idle"
    /\ abs = <<>>
    /\ last = NoCall
    /\ panicked = FALSE
    /\ \E tb \in StreamTables, ndst \in 0..MaxDsts :
         /\ decoder_streams = DecoderTable(tb, ndst)
         /\ encoder_streams = EncoderTable(tb, ndst)
         /\ nchan = Len(tb) * ndst + Len(tb)
    /\ dsts = <<>>
    /\ bind = NoBind
    /\ bound_chains = <<>>
    /\ NoGraph
    /\ packets = <<>>
    /\ NoWorker

SpecBindEmpty == InitBindEmpty /\ [][NextBind]_vars

\* A demuxer as Demuxer::new leaves it, with up to MaxStreams streams, whose
\* streams are connected and handed over in any order.
InitDemux ==
    /\ builder = FramePipelineBuilder_new("video")
    /\ built = FALSE
    /\ pipeline = FramePipeline_new("unknown", 0, NoName)
    /\ ctxs = [n \in NodeIds |-> FreeCtx]
    /\ cur = 0
    /\ held = 0
    /\ hook = "idle"
    /\ abs = <<>>
    /\ last = NoCall
    /\ panicked = FALSE
    /\ \E tb \in StreamTables :
         decoder_streams = [i \in 1..Len(tb) |->
                              DecoderStream_new(i - 1, tb[i].codec_type, tb[i].linklabel)]
    /\ encoder_streams = NoStreams
    /\ nchan = 0
    /\ dsts = <<>>
    /\ bind = NoBind
    /\ bound_chains = <<>>
    /\ NoGraph
    /\ packets = <<>>
    /\ NoWorker

NextDemux ==
    \/ ConnectStream
    \/ AddPacketDst
    \/ AddDst
    \/ StreamTakeDsts
    \/ TakeSrc
    \/ TakeDsts

SpecDemux == InitDemux /\ [][NextDemux]_vars

SpecBind == InitBind /\ [][NextBind]_vars

\* A demuxer of up to MaxStreams video streams, each feeding up to MaxDsts
\* destinations, to which builders are bound one after the other.
InitSeries ==
    /\ builder = FramePipelineBuilder_new("video")
    /\ built = FALSE
    /\ pipeline = FramePipeline_new("unknown", 0, NoName)
    /\ ctxs = [n \in NodeIds |-> FreeCtx]
    /\ cur = 0
    /\ held = 0
    /\ hook = "idle"
    /\ abs = <<>>
    /\ last = NoCall
    /\ panicked = FALSE
    /\ \E n \in 1..MaxStreams, ndst \in 0..MaxDsts :
         /\ decoder_streams =
               DecoderTable([i \in 1..n |-> [codec_type |-> "video", linklabel |-> NoName]],
                            ndst)
         /\ nchan = n * ndst
    /\ encoder_streams = NoStreams
    /\ dsts = <<>>
    /\ bind = NoBind
    /\ bound_chains = <<>>
    /\ NoGraph
    /\ packets = <<>>
    /\ NoWorker

NextSeries == MatchDecoderStreamInTurn

SpecSeries == InitSeries /\ [][NextSeries]_vars

\* A FilterGraph as FilterGraph::new leaves it, on which get_src_sender and
\* take_src are called in any order, while the callers send on, drop and
\* receive from what they were handed.
InitGraph ==
    /\ builder = FramePipelineBuilder_new("video")
    /\ built = FALSE
    /\ pipeline = FramePipeline_new("unknown", 0, NoName)
    /\ ctxs = [n \in NodeIds |-> FreeCtx]
    /\ cur = 0
    /\ held = 0
    /\ hook = "idle"
    /\ abs = <<>>
    /\ last = NoCall
    /\ panicked = FALSE
    /\ decoder_streams = NoStreams
    /\ encoder_streams = NoStreams
    /\ nchan = 0
    /\ dsts = <<>>
    /\ bind = NoBind
    /\ bound_chains = <<>>
    /\ NoGraph
    /\ packets = <<>>
    /\ NoWorker

NextGraph ==
    \/ GetSrcSender
    \/ GraphTakeSrc
    \/ DropSender
    \/ SendFrame
    \/ RecvFrame

SpecGraph == InitGraph /\ [][NextGraph]_vars

\* Forwarding rounds of run_filter_frame over every list of up to MaxDsts
\* senders, with consumers that drop out at any moment.
InitSend ==
    /\ builder = FramePipelineBuilder_new("video")
    /\ built = FALSE
    /\ pipeline = FramePipeline_new("unknown", 0, NoName)
    /\ ctxs = [n \in NodeIds |-> FreeCtx]
    /\ cur = 0
    /\ held = 0
    /\ hook = "idle"
    /\ abs = <<>>
    /\ last = NoCall
    /\ panicked = FALSE
    /\ decoder_streams = NoStreams
    /\ encoder_streams = NoStreams
    /\ nchan = 0
    /\ dsts = <<>>
    /\ bind = NoBind
    /\ bound_chains = <<>>
    /\ NoGraph
    /\ packets = <<>>
    /\ scheduler_status = "RUNNING"
    /\ scheduler_result = NoResult
    /\ up = NewUpstream
    /\ \E n \in 1..MaxDsts :
         /\ down = [ch \in 1..n |-> NewChannel]
         /\ frame_senders = [i \in 1..n |-> i]
    /\ worker = IdleWorker
    /\ round = NoRound
    /\ waited = "none"

NextSend ==
    \/ SinkClose
    \/ ForwardRound

SpecSend == InitSend /\ [][NextSend]_vars


\* One chain worker to come between a producer and up to nmax consumers:
\* a new builder, the channels binding has made, and one sender per
\* consumer, of which binding may have found none; each consumer's channel
\* holds as many units of other senders as one of ahead tells.
RunFrom(streams, units, nmax, ahead) ==
    /\ builder = FramePipelineBuilder_new("video")
    /\ built = FALSE
    /\ pipeline = FramePipeline_new("unknown", 0, NoName)
    /\ ctxs = [n \in NodeIds |-> FreeCtx]
    /\ cur = 0
    /\ held = 0
    /\ hook = "idle"
    /\ abs = <<>>
    /\ last = NoCall
    /\ panicked = FALSE
    /\ decoder_streams = streams
    /\ encoder_streams = NoStreams
    /\ nchan = 0
    /\ dsts = <<>>
    /\ bind = NoBind
    /\ bound_chains = <<>>
    /\ NoGraph
    /\ packets = <<>>
    /\ scheduler_status = STATUS_RUN
    /\ scheduler_result = NoResult
    /\ up = [NewUpstream EXCEPT !.limit = units]
    /\ \E n \in 0..nmax, k \in ahead :
         /\ down = [ch \in 1..n |-> [NewChannel EXCEPT !.q = Repeat(OtherUnit, k)]]
         /\ frame_senders = [i \in 1..n |-> i]
    /\ worker = IdleWorker
    /\ round = NoRound
    /\ waited = "none"

InitRun == RunFrom(NoStreams, MaxUnits, MaxSinks, {0})

\* The names of the stages the runs register.
RunNames == {"a", "b"}

RunFilter == BuilderFilterOf(RunNames, MaxBuilderFilters)

NextRun ==
    \/ RunFilter
    \/ PipelineInit
    \/ WorkerInit
    \/ WorkerTop
    \/ WorkerRecv
    \/ WorkerPull
    \/ WorkerEnd
    \/ WorkerUninit
    \/ WorkerReturn
    \/ SourceSend
    \/ SourceClose
    \/ SinkClose
    \/ Pause
    \/ Resume
    \/ End
    \/ Wait

SpecRun == InitRun /\ [][NextRun]_vars

\* The same run with threads that keep running: the caller of
\* pipeline_init, the worker thread, the producer and the caller of wait()
\* each take their next step when they can.
WorkerStep ==
    \/ PipelineInit
    \/ WorkerInit \/ WorkerTop \/ WorkerRecv \/ WorkerPull \/ WorkerSend \/ WorkerEnd
    \/ WorkerUninit \/ WorkerReturn

\* The worker thread can be spawned or can take a step: it is not waiting
\* in wait_until_not_paused or in a send into a full channel, and has not
\* ended.
WorkerCanStep ==
    \/ worker.pc = "none" /\ worker.ret = "none" /\ ~built /\ ~panicked
          /\ builder.filters # <<>>
    \/ worker.pc \in {"spawned", "recv", "pull", "returned", "uninit", "escalated"}
    \/ worker.pc = "top" /\ scheduler_status # STATUS_PAUSE
    \/ worker.pc = "send" /\ ~Full(down, frame_senders[worker.wait.at])

SpecRunFair ==
    /\ InitRun
    /\ [][NextRun]_vars
    /\ ([]<>(~WorkerCanStep) \/ []<><<WorkerStep>>_vars)
    /\ WF_vars(SourceSend)
    /\ WF_vars(SourceClose)
    /\ WF_vars(Wait)


\* The run with fair threads and at most one consumer, in which the run
\* is cancelled at any moment.  The consumer's channel may be full, or one
\* unit short of it, with the units of other senders; the consumer takes
\* the units of its channel for as long as it stays.
InitCancel == RunFrom(NoStreams, MaxUnits, 1, {0, ChannelCapacity - 1, ChannelCapacity})

NextCancel ==
    \/ NextRun
    \/ WorkerSend
    \/ SinkRecv

SpecCancel ==
    /\ InitCancel
    /\ [][NextCancel]_vars
    /\ ([]<>(~WorkerCanStep) \/ []<><<WorkerStep>>_vars)
    /\ WF_vars(SourceSend)
    /\ WF_vars(SourceClose)
    /\ WF_vars(SinkRecv)
    /\ WF_vars(Wait)


\* The run with fair threads in which pause() and resume() are called at
\* any moment and the run is never cancelled; a consumer takes the units of
\* its channel at its own pace and may leave.
NextPause ==
    \/ RunFilter
    \/ PipelineInit
    \/ WorkerInit
    \/ WorkerTop
    \/ WorkerRecv
    \/ WorkerPull
    \/ WorkerEnd
    \/ WorkerUninit
    \/ WorkerReturn
    \/ SourceSend
    \/ SourceClose
    \/ SinkRecv
    \/ SinkClose
    \/ Pause
    \/ Resume

SpecPause ==
    /\ InitRun
    /\ [][NextPause]_vars
    /\ ([]<>(~WorkerCanStep) \/ []<><<WorkerStep>>_vars)
    /\ WF_vars(SourceSend)
    /\ WF_vars(SourceClose)


\* The run in which a channel fills.  It exercises one of three
\* connections: the binding of a chain of one stage, whose producer has
\* more units than a channel holds and whose consumer, if there is one,
\* takes units at its own pace; the source channel of a filter graph, with
\* the senders and the receivers the graph hands out; or the connection of
\* a demuxer stream, with the demuxer thread that sends and the decoder
\* thread that receives.
InitChan == RunFrom(<<DecoderStream_new(0, "video", NoName)>>, MaxBurst, 1, {0})

ChanFilter == BuilderFilterOf({"a"}, 1)

\* Nothing of the chain binding has happened yet.
RunUntouched ==
    /\ worker = IdleWorker /\ builder.filters = <<>> /\ ~panicked
    /\ up.sent = 0 /\ up.snd
    /\ \A ch \in DOMAIN down : down[ch].open

\* The connection the run exercises is the chain binding, the filter graph
\* or the demuxer stream.
OnlyRun == NoGraph /\ nchan = 0

OnlyGraph == RunUntouched /\ nchan = 0

OnlyDemux == RunUntouched /\ NoGraph

NextChan ==
    \/ OnlyRun /\ ChanFilter
    \/ OnlyRun /\ PipelineInit
    \/ OnlyRun /\ WorkerInit
    \/ OnlyRun /\ WorkerTop
    \/ OnlyRun /\ WorkerRecv
    \/ OnlyRun /\ WorkerPull
    \/ OnlyRun /\ WorkerSend
    \/ OnlyRun /\ WorkerEnd
    \/ OnlyRun /\ WorkerUninit
    \/ OnlyRun /\ WorkerReturn
    \/ OnlyRun /\ SourceSend
    \/ OnlyRun /\ SourceClose
    \/ OnlyRun /\ SinkRecv
    \/ OnlyRun /\ SinkClose
    \/ OnlyGraph /\ GetSrcSender
    \/ OnlyGraph /\ GraphTakeSrc
    \/ OnlyGraph /\ DropSender
    \/ OnlyGraph /\ SendFrameUpTo(MaxBurst)
    \/ OnlyGraph /\ RecvFrame
    \/ OnlyDemux /\ ConnectStream
    \/ OnlyDemux /\ PacketSend
    \/ OnlyDemux /\ PacketRecv
    \/ OnlyDemux /\ PacketSenderDrop

SpecChan == InitChan /\ [][NextChan]_vars


\* The run with one consumer, which may leave at any moment, in which
\* every stage may produce up to MaxYield units in a pull pass.
InitPull == RunFrom(NoStreams, MaxYield, 1, {0})

NextPull ==
    \/ RunFilter
    \/ PipelineInit
    \/ WorkerInit
    \/ WorkerTop
    \/ WorkerRecv
    \/ WorkerPullMany
    \/ WorkerEnd
    \/ WorkerUninit
    \/ WorkerReturn
    \/ SourceSend
    \/ SourceClose
    \/ SinkClose

SpecPull == InitPull /\ [][NextPull]_vars


\* Between two and MaxWorkers chain workers of one run, each of which
\* leaves its loop at some moment with success or with a failure of
\* initialize, transform, produce or a send, finalizes its chain and ends,
\* and a caller of wait().
InitErr ==
    /\ builder = FramePipelineBuilder_new("video")
    /\ built = FALSE
    /\ pipeline = FramePipeline_new("unknown", 0, NoName)
    /\ ctxs = [n \in NodeIds |-> FreeCtx]
    /\ cur = 0
    /\ held = 0
    /\ hook = "idle"
    /\ abs = <<>>
    /\ last = NoCall
    /\ panicked = FALSE
    /\ decoder_streams = NoStreams
    /\ encoder_streams = NoStreams
    /\ nchan = 0
    /\ dsts = <<>>
    /\ bind = NoBind
    /\ bound_chains = <<>>
    /\ NoGraph
    /\ packets = <<>>
    /\ scheduler_status = STATUS_RUN
    /\ scheduler_result = NoResult
    /\ up = NewUpstream
    /\ down = <<>>
    /\ frame_senders = <<>>
    /\ \E n \in 2..MaxWorkers :
         worker = [i \in 1..n |-> RunningWorker(ErrChain)]
    /\ round = NoRound
    /\ waited = "none"

NextErr ==
    \/ WorkerFailsInit
    \/ WorkerLeaves
    \/ WorkerEscalates
    \/ WorkerUninits
    \/ WorkerExits
    \/ Pause
    \/ Resume
    \/ End
    \/ WaitAll

SpecErr == InitErr /\ [][NextErr]_vars

\* Between two and MaxWorkers chain workers, each with a chain of
\* MaxBuilderFilters stages, each of which finalizes its chain and ends
\* when a hook of one of its stages fails.
InitWrap ==
    /\ builder = FramePipelineBuilder_new("video")
    /\ built = FALSE
    /\ pipeline = FramePipeline_new("unknown", 0, NoName)
    /\ ctxs = [n \in NodeIds |-> FreeCtx]
    /\ cur = 0
    /\ held = 0
    /\ hook = "idle"
    /\ abs = <<>>
    /\ last = NoCall
    /\ panicked = FALSE
    /\ decoder_streams = NoStreams
    /\ encoder_streams = NoStreams
    /\ nchan = 0
    /\ dsts = <<>>
    /\ bind = NoBind
    /\ bound_chains = <<>>
    /\ NoGraph
    /\ packets = <<>>
    /\ scheduler_status = STATUS_RUN
    /\ scheduler_result = NoResult
    /\ up = NewUpstream
    /\ down = <<>>
    /\ frame_senders = <<>>
    /\ \E n \in 2..MaxWorkers :
         worker = [i \in 1..n |->
                     [pc |-> "running", exit |-> "none", pending |-> "none",
                      open |-> TRUE, u |-> RunningWorker(WrapChain).u,
                      phase |-> "none", stage |-> NoName,
                      error |-> FrameFilterError("none", "none")]]
    /\ round = NoRound
    /\ waited = "none"

NextWrap == WorkerHookFails \/ WorkerEscalates \/ WorkerUninits \/ WorkerExits

SpecWrap == InitWrap /\ [][NextWrap]_vars

\* =============================================================== claims
Running == built /\ ~panicked

NoRepeat(s) == \A i, j \in 1..Len(s) : s[i] = s[j] => i = j

\* C1: whenever the chain is non-empty, the names met from head along
\* next-links are the reverse of the names met from tail along prev-links.
C1_ForwardIsReverseOfBackward ==
    (Running /\ pipeline.head # 0) => HeadNames = Reverse(TailNames)

\* C2: the names met from head are the list the same calls produce on a
\* plain list of names.
C2_RefinesNameList ==
    Running => HeadNames = abs

\* C3: head is absent iff tail is absent; when present, tail is the last
\* cell of the walk from head and head has no prev-link.
C3_HeadTailConsistent ==
    Running =>
        /\ (pipeline.head = 0) <=> (pipeline.tail = 0)
        /\ pipeline.head # 0 =>
              /\ HeadWalk[Len(HeadWalk)] = pipeline.tail
              /\ ctxs[pipeline.head].prev = 0

\* C4: remove of a name the chain holds returns the stage its first cell
\* of that name held, leaves that cell out of the walk from head with no
\* links, and empties the chain when it was the only cell.
C4_RemoveReturnsStageAndUnlinks ==
    (Running /\ hook = "none") =>
        \A name \in Names :
            LET node == ScanNode(Chain, name)
                r == remove(Chain, cur, name)
            IN node # 0 =>
                /\ ~r.panic /\ r.ok
                /\ r.filter = ctxs[node].frame_filter
                /\ r.filter # NoopFilter
                /\ r.node \notin SeqToSet(Walk(r.s.ctxs, r.s.head, MaxNodes + 1))
                /\ r.node # 0 => (r.s.ctxs[r.node].prev = 0 /\ r.s.ctxs[r.node].next = 0)
                /\ Len(HeadWalk) = 1 => (r.s.head = 0 /\ r.s.tail = 0)

C4_Witness ==
    /\ Running /\ last.op = "remove" /\ last.ok
    /\ pipeline.head = 0 /\ pipeline.tail = 0
    /\ abs = <<>>

\* C5: add_first and add_last on an empty chain leave one cell that is
\* both head and tail, is the inserted one, and has no prev or next.
OnlyCell(r, name, f) ==
    /\ ~r.panic
    /\ r.s.head # 0 /\ r.s.head = r.s.tail /\ r.s.head = r.node
    /\ r.s.ctxs[r.node] = [name |-> name, frame_filter |-> f, prev |-> 0, next |-> 0]

C5_AddToEmptyChain ==
    (Running /\ hook = "none" /\ pipeline.head = 0 /\ pipeline.tail = 0) =>
        \A name \in Names, f \in Filters :
            f.kind = pipeline.media_type =>
                /\ OnlyCell(add_first(Chain, cur, name, f), name, f)
                /\ OnlyCell(add_last(Chain, cur, name, f), name, f)

C5_Witness ==
    /\ Running /\ last.op \in {"add_first", "add_last"}
    /\ Len(HeadWalk) = 1 /\ pipeline.head = pipeline.tail
    /\ abs = HeadNames

\* C6: no two cells met from head carry the same name.
C6_NamesUnique ==
    Running => NoRepeat(HeadNames)

\* C7: every stage of a cell met from head has the chain's media kind, and
\* filter, add_first, add_last, add_before, add_after and replace given a
\* stage of another kind panic and leave the chain (the builder) as it was.
FailsFast(r) == r.panic /\ r.s = Chain

C7_MediaKindEnforced ==
    /\ Running =>
          \A i \in 1..Len(HeadWalk) :
              ctxs[HeadWalk[i]].frame_filter.kind = pipeline.media_type
    /\ (Running /\ hook = "none") =>
          \A f \in Filters, name \in Names, base \in Names :
              f.kind # pipeline.media_type =>
                  /\ FailsFast(add_first(Chain, cur, name, f))
                  /\ FailsFast(add_last(Chain, cur, name, f))
                  /\ FailsFast(add_before(Chain, cur, base, name, f))
                  /\ FailsFast(add_after(Chain, cur, base, name, f))
                  /\ FailsFast(replace(Chain, cur, base, name, f))
    /\ (~built /\ ~panicked) =>
          \A f \in Filters, name \in Names :
              f.kind # builder.media_type =>
                  (filter(builder, name, f).panic /\ filter(builder, name, f).b = builder)

C7_Witness ==
    /\ panicked /\ built /\ last.op = "replace"
    /\ Len(HeadWalk) >= 2
    /\ \A i \in 1..Len(HeadWalk) : ctxs[HeadWalk[i]].frame_filter.kind = pipeline.media_type

\* C8: the walk from head meets no cell twice and ends at a cell with no
\* next-link.
C8_NoCycle ==
    built =>
        /\ NoRepeat(HeadWalk)
        /\ Len(HeadWalk) <= MaxNodes
        /\ pipeline.head # 0 => ctxs[HeadWalk[Len(HeadWalk)]].next = 0

C8_Witness ==
    /\ Running /\ last.op \in {"add_before", "add_after"} /\ last.ok
    /\ Len(HeadWalk) >= 3

\* C9: a remove or replace a stage makes on its own cell from inside its
\* transform or produce hook completes and finds the cell.
C9_SelfRemoveCompletes ==
    (hook \in {"filter_frame", "request_frame"} /\ last.self
        /\ last.op \in {"remove", "replace"})
    => (~panicked /\ last.ok)

\* C10: the stream bound is the first with the builder's index if it has
\* one, else the first with the builder's label if it has one, else the
\* first of the builder's media kind; resolution succeeds iff there is one.
Streams == IF bind.side = "input" THEN decoder_streams ELSE encoder_streams

PickedByClaim ==
    LET byIndex == {i \in 1..Len(Streams) : Streams[i].stream_index = builder.stream_index}
        byLabel == {i \in 1..Len(Streams) : Streams[i].linklabel = builder.linklabel}
        byKind == {i \in 1..Len(Streams) : Streams[i].codec_type = builder.media_type}
        pick == IF builder.stream_index # -1 THEN byIndex
                ELSE IF builder.linklabel # NoName THEN byLabel
                ELSE byKind
    IN IF pick = {} THEN 0 ELSE Min(pick)

\* The table of the example: stream 0 is video, stream 1 is audio labelled "1:a".
ExampleTable ==
    /\ Len(Streams) = 2
    /\ Streams[1].codec_type = "video" /\ Streams[1].linklabel # "1:a"
    /\ Streams[2].codec_type = "audio" /\ Streams[2].linklabel = "1:a"

C10_BindingOrder ==
    bind.side # "none" =>
        /\ bind.pos = PickedByClaim
        /\ bind.ok <=> PickedByClaim # 0
        /\ bind.ok => bind.stream_index = Streams[bind.pos].stream_index
        /\ ExampleTable =>
              /\ builder.stream_index = 1 => (bind.ok /\ bind.stream_index = 1)
              /\ (builder.stream_index = -1 /\ builder.linklabel = "1:a")
                    => (bind.ok /\ bind.stream_index = 1)
              /\ (builder.stream_index = -1 /\ builder.linklabel = NoName
                    /\ builder.media_type = "video")
                    => (bind.ok /\ bind.stream_index = 0)

\* The index wins over a label and a kind that point at another stream.
C10_Witness ==
    /\ bind.side # "none" /\ bind.ok
    /\ builder.stream_index = 1 /\ builder.linklabel # NoName
    /\ Streams[1].linklabel = builder.linklabel
    /\ Streams[1].codec_type = builder.media_type
    /\ Streams[2].linklabel # builder.linklabel
    /\ Streams[2].codec_type # builder.media_type
    /\ bind.pos = 2

\* C11: a failed resolution returns the error of its case (index, label,
\* kind), returns it without spawning a worker, creates no channel and
\* leaves every decoder and encoder stream as it was.
ErrByClaim ==
    IF builder.stream_index # -1 THEN "FrameFilterStreamTypeNoMatched"
    ELSE IF builder.linklabel # NoName THEN "FrameFilterLinkLabelNoMatched"
    ELSE "FrameFilterTypeNoMatched"

C11_FailedBindingHasNoEffect ==
    [][(bind.side = "none" /\ bind'.side # "none" /\ ~bind'.ok) =>
          /\ bind'.err = ErrByClaim
          /\ bind'.ret = bind'.err
          /\ ~bind'.spawned
          /\ nchan' = nchan
          /\ decoder_streams' = decoder_streams
          /\ encoder_streams' = encoder_streams]_vars

C11_Witness ==
    /\ bind.side = "input" /\ ~bind.ok
    /\ bind.err = "FrameFilterLinkLabelNoMatched"
    /\ Len(decoder_streams) = 2
    /\ Len(decoder_streams[1].dsts) = 2

\* C12: a successful input-side binding leaves the bound decoder stream
\* with the one new capacity-8 channel as its destinations and hands the
\* chain the stream's previous destinations in their order; a successful
\* output-side binding makes the encoder stream read from the new channel
\* and the chain read from the stream's previous source; nothing else of
\* any stream changes.
C12_BindingRetargets ==
    [][(bind.side = "none" /\ bind'.side # "none" /\ bind'.ok) =>
          LET p == bind'.pos IN
          /\ nchan' = nchan + 1
          /\ bind'.capacity = 8
          /\ bind'.side = "input" =>
                /\ decoder_streams'[p].dsts = <<nchan'>>
                /\ bind'.receiver = nchan'
                /\ bind'.senders = decoder_streams[p].dsts
                /\ decoder_streams' = [decoder_streams EXCEPT ![p].dsts = <<nchan'>>]
                /\ encoder_streams' = encoder_streams
          /\ bind'.side = "output" =>
                /\ encoder_streams'[p].src = nchan'
                /\ bind'.senders = <<nchan'>>
                /\ bind'.receiver = encoder_streams[p].src
                /\ encoder_streams' = [encoder_streams EXCEPT ![p].src = nchan']
                /\ decoder_streams' = decoder_streams]_vars

C12_Witness ==
    /\ bind.side = "input" /\ bind.ok /\ bind.pos = 2
    /\ Len(bind.senders) = 2 /\ bind.senders[1] < bind.senders[2]
    /\ decoder_streams[2].dsts = <<nchan>>
    /\ Len(decoder_streams[1].dsts) = 2

\* C13: a round that forwards a unit to N senders makes N-1 duplicates and
\* moves the original once (no duplicate for N = 1), and every destination
\* whose send succeeded has received a unit equal to the one forwarded.
Sent(i) == \A j \in 1..Len(round.finished) : round.finished[j] # i - 1

C13_FanOutCounts ==
    (round.k > 0 /\ round.err = "none") =>
        LET n == Len(round.before) IN
        /\ round.dups = n - 1
        /\ round.moves = 1
        /\ n = 1 => round.dups = 0
        /\ \A i \in 1..n :
              Sent(i) => LET q == down[round.before[i]].q
                         IN q # <<>> /\ q[Len(q)] = round.unit

C13_Witness ==
    /\ round.k > 0 /\ round.err = "none"
    /\ Len(round.before) = 2 /\ round.dups = 1
    /\ ~round.unit.buf
    /\ Sent(1) /\ Sent(2)

\* C14: after a round the list of senders is the list before the round
\* without exactly the senders whose send failed, whichever of them failed,
\* and the removal neither panics nor raises an error.
RECURSIVE Kept(_)
Kept(i) ==
    IF i > Len(round.before) THEN <<>>
    ELSE (IF Sent(i) THEN <<round.before[i]>> ELSE <<>>) \o Kept(i + 1)

C14_RemovesExactlyFailed ==
    (round.k > 0 /\ round.err = "none") =>
        /\ ~round.panic
        /\ frame_senders = Kept(1)

\* The worker is inside the loop of run_pipeline.
InLoop == worker.pc \in {"top", "recv", "pull"}

AllClosed == \A ch \in DOMAIN down : ~down[ch].open

HookErrors == {"FrameFilterInit", "FrameFilterProcess", "FrameFilterRequest",
               "FrameFilterSendOOM", PoolError}

\* C15: a worker whose destinations have all been closed, and whose hooks
\* do not fail, ends with success: run_pipeline returns Ok, the error slot
\* and run-status are left as they were.
C15_ClosedDestinationsEndInSuccess ==
    [][(InLoop /\ AllClosed /\ worker'.pc \in {"returned", "exited"}
          /\ worker'.exit \notin HookErrors)
         => /\ worker'.exit = "Ok"
            /\ scheduler_result' = scheduler_result
            /\ scheduler_status' = scheduler_status]_vars

\* The number of stages the builder was given.
NStages == IF built THEN Len(abs) ELSE Len(builder.filters)

\* The run is not the end-to-end run of one pass-through stage and one
\* consumer that stays until it is disconnected: there is more than one
\* stage or consumer, the run is paused or cancelled, a hook fails or
\* returns no unit or produces one, or the consumer leaves early.
NotPlainRun ==
    \/ NStages # 1
    \/ Len(down) # 1
    \/ scheduler_status # STATUS_RUN
    \/ ~worker.plain
    \/ worker.exit \in HookErrors
    \/ \E ch \in DOMAIN down : down[ch].early

UnitIds(q) == [i \in 1..Len(q) |-> q[i].id]

UpTo(n) == [i \in 1..n |-> i]

\* C17: after every forwarding round that ends without error, a
\* destination that is still connected has received every unit forwarded
\* so far, each once and in arrival order.
C17_ConnectedReceiveAllInOrder ==
    (round.err = "none" /\ ~round.panic) =>
        \A ch \in DOMAIN down : down[ch].open => UnitIds(down[ch].q) = UpTo(round.k)

\* The failure run: one stage, one consumer that stays until it is
\* disconnected, and the transform hook has failed on a unit received
\* from upstream.
FailureRun ==
    /\ NStages = 1 /\ Len(down) = 1
    /\ worker.plain
    /\ worker.exit = "FrameFilterProcess"
    /\ ~down[1].early

\* C18: in the failure run where the transform hook fails on the k-th unit
\* received, once wait() has returned it has returned that error, the
\* consumer has been sent exactly the first k-1 units, and the worker
\* thread has exited.
C18_FailureRun ==
    (FailureRun /\ waited # "none") =>
        /\ waited = "FrameFilterProcess"
        /\ UnitIds(down[1].q) = UpTo(worker.recvd - 1)
        /\ worker.pc = "exited"

\* C19: after an initialize failure the worker calls finalize, in chain
\* order, on stages whose initialize was called and on no other stage; it
\* escalates the error after these calls and not before, and has done so
\* when its thread has ended.
C19_FinalizeOnlyInitialized ==
    worker.exit = "FrameFilterInit" =>
        /\ worker.pc = "uninit" => scheduler_result.err = "none"
        /\ worker.pc \in {"escalated", "exited"} =>
              (scheduler_result.err = "FrameFilterInit" /\ scheduler_status = STATUS_END)
        /\ Len(worker.uninit) <= Len(worker.init)
        /\ worker.uninit = SubSeq(worker.init, 1, Len(worker.uninit))

\* The workers that escalate their failure in this step: run_pipeline has
\* returned an error (line 307), or the chain that failed to initialize has
\* been finalized (line 291).
Failing ==
    {i \in DOMAIN worker :
        \/ /\ worker[i].pc = "returned" /\ worker'[i].pc = "uninit"
           /\ worker[i].exit \in RunErrors
        \/ /\ worker[i].pc = "uninit" /\ worker'[i].pc = "escalated"
           /\ worker[i].exit = "FrameFilterInit"}

\* The workers that have failed: the chain failed to initialize, or
\* run_pipeline has returned an error.
Failed == {i \in DOMAIN worker : worker[i].exit \in RunErrors \cup {"FrameFilterInit"}}

\* C20: the error slot is written at most once, by the first worker that
\* escalates a failure and with its error, and later errors are discarded;
\* every escalation leaves run-status at ENDING; and once wait() has
\* returned in a run in which a worker has failed, it has returned the
\* error of the slot.
C20_FirstErrorWins ==
    /\ [][/\ scheduler_result.err # "none" => scheduler_result' = scheduler_result
          /\ \A i \in Failing :
               /\ scheduler_status' = STATUS_END
               /\ scheduler_result.err = "none" =>
                     scheduler_result' = [w |-> i, err |-> worker'[i].exit]
          /\ Failing = {} => scheduler_result' = scheduler_result]_vars
    /\ []((waited # "none" /\ Failed # {}) =>
             (scheduler_result.err # "none" /\ waited = scheduler_result.err))

\* C21: a worker thread that has ended has called finalize on every stage
\* of the chain, once each and from head to tail, and has left the chain
\* without head and without tail.
C21_FinalizeOnEveryExit ==
    worker.pc = "exited" =>
        /\ worker.uninit = abs
        /\ pipeline.head = 0 /\ pipeline.tail = 0

C23_EndingExitsWithSuccess ==
    [][(scheduler_status = STATUS_END /\ InLoop /\ worker'.pc \in {"returned", "exited"})
         => /\ worker'.exit = "Ok"
            /\ scheduler_result' = scheduler_result]_vars

\* C23: with consumers that keep taking the units of their channels until
\* they leave, a worker that has been spawned eventually ends once
\* run-status is ENDING, also when ENDING finds it waiting in a send into
\* a full channel; it makes no receive from upstream other than one it
\* had already begun, so it receives at most one further envelope; and at
\* the top of its loop it observes ENDING and returns success, after which
\* it writes no error.  What it was doing when ENDING was set may still
\* fail.
C23_EndingStopsWorker ==
    /\ [](worker.late <= 1)
    /\ [][scheduler_status = STATUS_END =>
            /\ worker'.pc = "recv" => worker.pc = "recv"
            /\ (worker.pc = "top" /\ worker'.pc # "top") =>
                  (worker'.pc = "returned" /\ worker'.exit = "Ok")
            /\ (worker.pc \in {"returned", "uninit"} /\ worker.exit = "Ok") =>
                  scheduler_result' = scheduler_result]_vars
    /\ ((scheduler_status = STATUS_END /\ worker.pc # "none") ~> worker.pc = "exited")

\* ENDING has found the worker waiting in the send of the unit it received
\* last, into the channel other senders have filled.
C23_Witness ==
    /\ scheduler_status = STATUS_END
    /\ worker.pc = "send" /\ worker.wait.then = "recv"
    /\ worker.late = 0 /\ worker.recvd = 1
    /\ Full(down, frame_senders[worker.wait.at])
    /\ scheduler_result.err = "none"

\* The run-status has only been toggled between RUNNING and PAUSED.
NeverEnding == scheduler_status \in {STATUS_RUN, STATUS_PAUSE}

\* No hook of the worker has failed and no send has run out of memory.
NoFailure == worker.exit \notin HookErrors

\* a is what is left of b after units have been taken from its head.
IsSuffix(a, b) ==
    /\ Len(a) <= Len(b)
    /\ a = SubSeq(b, Len(b) - Len(a) + 1, Len(b))

\* The units a worker of pass-through stages has forwarded when it has
\* received n units: each as it was sent, with the stages it has met.
Passed(n) == [i \in 1..n |-> [id |-> i, buf |-> TRUE, via |-> HeadNames, by |-> NoName]]

\* A step of the run in which run-status is RUNNING throughout: a step of
\* the caller of pipeline_init, of the worker, of the producer or of a
\* consumer, where the worker at the top of its loop does not wait and
\* goes on to the receive or, upstream finished, to the pull pass.
UnpausedStep ==
    \/ RunFilter \/ PipelineInit \/ WorkerInit
    \/ /\ worker.pc = "top"
       /\ worker' = [worker EXCEPT
                        !.pc = IF worker.src_finished_flag THEN "pull" ELSE "recv"]
       /\ UNCHANGED <<chainVars, bindVars, scheduler_status, scheduler_result, up, down,
                      frame_senders, round, waited>>
    \/ WorkerRecv \/ WorkerPull \/ WorkerEnd \/ WorkerUninit \/ WorkerReturn
    \/ SourceSend \/ SourceClose \/ SinkRecv \/ SinkClose

\* C24: whatever the interleaving of pause() and resume() with the
\* delivery of units, with run-status never ENDING: a call of pause() or
\* resume() changes nothing but run-status, and every other step is a step
\* of the run without pauses from the same state, so that the run, seen
\* without run-status, is a run without pauses and every destination is
\* sent what that run sends it, unit by unit; the destinations of the
\* worker's list that are connected have been sent the same units in the
\* same order (each holds what its consumer has not yet taken of them),
\* which with pass-through stages are the units received, whole and in the
\* order of their sending; and a worker waiting at the top of its loop
\* goes on once the run is resumed.
C24_PauseChangesTimingOnly ==
    /\ [][(NeverEnding /\ NeverEnding') =>
            IF scheduler_status' # scheduler_status
            THEN UNCHANGED <<chainVars, bindVars, scheduler_result, up, down,
                             frame_senders, worker, round, waited>>
            ELSE UnpausedStep]_vars
    /\ []((NeverEnding /\ NoFailure) =>
            \A c1 \in SeqToSet(frame_senders) :
               down[c1].open =>
                  /\ \A c2 \in SeqToSet(frame_senders) :
                        down[c2].open =>
                           \/ IsSuffix(down[c1].q, down[c2].q)
                           \/ IsSuffix(down[c2].q, down[c1].q)
                  /\ worker.plain => IsSuffix(down[c1].q, Passed(worker.recvd)))
    /\ ((scheduler_status = STATUS_RUN /\ worker.pc = "top")
          ~> (worker.pc # "top" \/ scheduler_status = STATUS_PAUSE))

\* The run is paused with the worker at the top of its loop: the first
\* unit has been sent to both destinations, one consumer has taken it, and
\* the second unit waits upstream.
C24_Witness ==
    /\ scheduler_status = STATUS_PAUSE
    /\ worker.pc = "top" /\ worker.plain /\ worker.recvd = 1
    /\ frame_senders = <<1, 2>>
    /\ down[1].open /\ down[1].q = <<>>
    /\ down[2].open /\ down[2].q = Passed(1)
    /\ HeadNames = <<"a", "b">>
    /\ UnitIds(up.q) = <<2>>

\* q2 is q1 after one send, after one receive, or q1 itself.
QueueStep(q1, q2) ==
    \/ q2 = q1
    \/ q1 # <<>> /\ q2 = Tail(q1)
    \/ Len(q2) = Len(q1) + 1 /\ SubSeq(q2, 1, Len(q1)) = q1

\* C25: the channel of a chain binding, of a demuxer stream connection and
\* of a filter-graph source is created with 8 slots and never holds more
\* than 8 units; a send into a full channel does not complete while the
\* channel is full: no unit is added and none is counted as sent, and the
\* worker that sends into a full channel waits, holding the unit, until a
\* slot is free or the receiver is dropped, and when the receiver is still
\* there the unit is then the last of the channel; no unit in a channel is
\* lost or overwritten: a channel changes by one send at its tail or one
\* receive at its head, every unit sent is queued in exactly one channel,
\* and the upstream channel holds exactly the units sent and not yet
\* received, in order; the receiver is told of the disconnect when, and
\* only when, every sender is dropped and the channel is drained, and then
\* does not wait.
C25_ChannelsHoldEight ==
    /\ [](/\ up.cap = 8 /\ Len(up.q) <= 8
          /\ \A ch \in DOMAIN down : down[ch].cap = 8 /\ Len(down[ch].q) <= 8
          /\ up.open => UnitIds(up.q) = [i \in 1..(up.sent - worker.recvd) |->
                                            worker.recvd + i]
          /\ \A c \in DOMAIN graph_chans :
                graph_chans[c].cap = 8 /\ graph_chans[c].q \in 0..8
          /\ graph_user.recv = "disconnected" =>
                \E j \in DOMAIN graph_user.receivers :
                   LET c == graph_user.receivers[j]
                   IN graph_chans[c].senders = 0 /\ graph_chans[c].q = 0
          /\ \A c \in DOMAIN packets :
                /\ packets[c].cap = 8 /\ packets[c].q \in 0..8
                /\ packets[c].recv = "disconnected" => (~packets[c].snd /\ packets[c].q = 0)
                /\ packets[c].recv = "empty" => (packets[c].snd /\ packets[c].q = 0))
    /\ [][/\ Len(up.q) = 8 => up'.sent = up.sent
          /\ up'.open => QueueStep(up.q, up'.q)
          /\ \A ch \in DOMAIN down :
                /\ down'[ch].open => QueueStep(down[ch].q, down'[ch].q)
                /\ (Len(down[ch].q) = 8 /\ down[ch].open) =>
                      Len(down'[ch].q) <= Len(down[ch].q)
          /\ worker.pc = "send" =>
                LET ch == frame_senders[worker.wait.at]
                    unit == IF worker.wait.at < Len(frame_senders)
                            THEN dup_frame(worker.wait.frame)
                            ELSE worker.wait.frame
                IN /\ (Len(down[ch].q) = 8 /\ down[ch].open) =>
                         (worker' = worker /\ frame_senders' = frame_senders)
                   /\ (worker' # worker /\ down[ch].open) =>
                         down'[ch].q = Append(down[ch].q, unit)
          /\ (worker'.src_finished_flag /\ ~worker.src_finished_flag) =>
                (~up.snd /\ up.q = <<>>)
          /\ (worker.pc = "recv" /\ ~up.snd /\ up.q = <<>> /\ worker' # worker) =>
                (worker'.src_finished_flag /\ worker'.pc = "top")
          /\ \A c \in DOMAIN graph_chans :
                /\ c \in DOMAIN graph_chans'
                /\ graph_chans'[c].q - graph_chans[c].q \in {-1, 0, 1}
                /\ graph_chans[c].q = 8 => graph_chans'[c].q <= 8
                /\ graph_chans'[c].q = graph_chans[c].q + 1 =>
                      graph_user'.sent = graph_user.sent + 1
                /\ graph_chans'[c].q = graph_chans[c].q - 1 => graph_user'.recv = "unit"
          /\ graph_user'.sent # graph_user.sent =>
                /\ graph_user'.sent = graph_user.sent + 1
                /\ Cardinality({c \in DOMAIN graph_chans :
                                  graph_chans'[c].q = graph_chans[c].q + 1}) = 1
          /\ (graph_user' # graph_user /\ graph_user'.recv \in {"disconnected", "empty"}) =>
                \E j \in DOMAIN graph_user.receivers :
                   LET c == graph_user.receivers[j]
                   IN /\ graph_chans[c].q = 0
                      /\ graph_user'.recv = "disconnected" <=> graph_chans[c].senders = 0
          /\ \A c \in DOMAIN packets :
                /\ c \in DOMAIN packets'
                /\ packets'[c].q - packets[c].q \in {-1, 0, 1}
                /\ packets[c].q = 8 =>
                      (packets'[c].q <= 8 /\ packets'[c].sent = packets[c].sent)
                /\ packets'[c].sent # packets[c].sent =>
                      (packets'[c].sent = packets[c].sent + 1 /\ packets[c].snd)
                /\ packets'[c].sent = packets[c].sent + 1 <=>
                      packets'[c].q = packets[c].q + 1
                /\ packets'[c].q = packets[c].q - 1 => packets'[c].recv = "unit"
                /\ (packets'[c] # packets[c]
                        /\ packets'[c].recv \in {"disconnected", "empty"}) =>
                      /\ packets[c].q = 0
                      /\ packets'[c].recv = "disconnected" <=> ~packets[c].snd]_vars

C25_Witness ==
    /\ frame_senders = <<1>> /\ down[1].cap = 8
    /\ Len(down[1].q) = 8 /\ down[1].open
    /\ worker.pc = "send" /\ worker.wait.at = 1
    /\ worker.wait.frame.id = 9 /\ worker.recvd = 9
    /\ up.q = <<>>
    /\ ~up.snd

\* C26: connect_stream(i) on a stream in use creates no channel and leaves
\* the destination list and every stream as they are; on a stream not in
\* use it creates one channel, appends the one entry (sender, i, None) and
\* gives the stream the receiver of that channel, so that the stream is in
\* use exactly when it has an inbound channel; connecting a second time
\* changes nothing.
C26_ConnectStreamIdempotent ==
    \A index \in 0..(Len(decoder_streams) - 1) :
        LET i == index + 1
            r == connect_stream(Demuxer, index, nchan)
            again == connect_stream([streams |-> r.streams, dsts |-> r.dsts], index, r.nchan)
        IN /\ decoder_streams[i].src # 0 =>
                 /\ r.nchan = nchan /\ r.made = <<>>
                 /\ r.dsts = dsts
                 /\ r.streams = decoder_streams
           /\ decoder_streams[i].src = 0 =>
                 /\ r.nchan = nchan + 1 /\ Len(r.made) = 1
                 /\ r.dsts = dsts \o <<[sender |-> nchan + 1, index |-> index, out |-> -1]>>
                 /\ r.streams[i].src = nchan + 1
                 /\ \A j \in DOMAIN decoder_streams :
                       j # i => r.streams[j] = decoder_streams[j]
                 /\ [r.streams[i] EXCEPT !.src = 0] = decoder_streams[i]
           /\ is_used(r.streams[i]) <=> r.streams[i].src # 0
           /\ is_used(r.streams[i])
           /\ again = [r EXCEPT !.made = <<>>]

C26_Witness ==
    /\ Len(decoder_streams) = 2
    /\ decoder_streams[2].src = 3 /\ decoder_streams[1].src = 0
    /\ decoder_streams[2].dsts = <<2>>
    /\ dsts = <<[sender |-> 1, index |-> 1, out |-> 0],
                [sender |-> 3, index |-> 1, out |-> -1]>>
    /\ nchan = 3

\* The stages the calls of filter() have registered, in the order of the
\* calls (abs lists the names the calls were given).
Registered == [i \in 1..Len(abs) |-> [name |-> abs[i],
                                       filter |-> [id |-> abs[i], kind |-> "video"]]]

\* C27: the builder holds the stages registered with filter(), in the
\* order of registration, until build() or a refused spawn consumes it;
\* the chain the worker has built of it holds exactly these stages, under their names and in that order, from head to
\* tail and back; and every unit the worker receives is passed through
\* them in that order, up to the first stage that returns no unit or
\* fails, so that a unit that has reached a destination has passed through
\* all of them.
C27_BuiltChainIsRegistration ==
    /\ (~built /\ worker.ret # "FrameFilterThreadExited") => builder.filters = Registered
    /\ (built /\ InLoop) =>
          /\ Len(HeadWalk) = Len(Registered)
          /\ \A i \in DOMAIN Registered :
                /\ ctxs[HeadWalk[i]].name = Registered[i].name
                /\ ctxs[HeadWalk[i]].frame_filter = Registered[i].filter
          /\ TailWalk = Reverse(HeadWalk)
    /\ (InLoop /\ up.q # <<>>) =>
          \A plan \in Plans(Len(HeadWalk), Len(frame_senders)) :
              LET called == IF plan.stop = 0 THEN Len(Registered) ELSE plan.stop
              IN run_filter_frame(Chain, Head(up.q), pipeline.head, frame_senders, down,
                                  plan).via
                 = [i \in 1..called |-> Registered[i].name]
    /\ built =>
          \A ch \in DOMAIN down : \A j \in DOMAIN down[ch].q :
              down[ch].q[j].id > 0 =>
                  down[ch].q[j].via = [i \in DOMAIN Registered |-> Registered[i].name]

\* The worker has handled a unit in this step: it has received or produced
\* one, or a destination has been sent one.
HandlesUnit ==
    \/ worker'.recvd # worker.recvd
    \/ worker'.produced # worker.produced
    \/ \E ch \in DOMAIN down : Len(down'[ch].q) > Len(down[ch].q)

\* C28: the worker builds the chain and calls init on its stages from the
\* head on, once each, before it receives a unit or runs a transform or
\* produce hook: it enters its loop only with init called on every stage,
\* in chain order; init stops at the first stage that fails, and then the
\* worker has received nothing, produced nothing and sent nothing (its
\* destinations hold only what other senders have sent), and never will.
C28_InitBeforeAnyUnit ==
    /\ [](/\ worker.pc = "spawned" =>
                (~built /\ worker.init = <<>> /\ worker.recvd = 0 /\ worker.produced = 0)
          /\ built => /\ worker.init # <<>>
                      /\ Len(worker.init) <= Len(abs)
                      /\ worker.init = SubSeq(abs, 1, Len(worker.init))
          /\ (InLoop \/ worker.recvd > 0 \/ worker.produced > 0) =>
                (built /\ worker.init = abs /\ Len(abs) = NStages)
          /\ worker.exit = "FrameFilterInit" =>
                /\ worker.pc \in {"uninit", "escalated", "exited"}
                /\ worker.recvd = 0 /\ worker.produced = 0
                /\ \A ch \in DOMAIN down : \A j \in DOMAIN down[ch].q :
                      down[ch].q[j] = OtherUnit)
    /\ [][/\ HandlesUnit => (built /\ worker.init = abs
                             /\ (InLoop \/ worker.pc = "send"))
          /\ worker.init # <<>> => worker'.init = worker.init]_vars

\* The chain has failed to initialize at its second stage and the error
\* is in the slot; the closure has yet to return, so that the receiver it
\* captured still holds the two units the producer has sent.
C28_Witness ==
    /\ worker.exit = "FrameFilterInit"
    /\ worker.pc = "escalated"
    /\ scheduler_result.err = "FrameFilterInit"
    /\ abs = <<"a", "b">>
    /\ worker.init = <<"a", "b">>
    /\ up.open /\ UnitIds(up.q) = <<1, 2>>
    /\ Len(down) = 1 /\ Len(down[1].q) = ChannelCapacity

\* C29: when the upstream channel reports disconnected the worker sets
\* src_finished_flag, writes no error and goes back to the top of its
\* loop; from then on it makes no receive, and every iteration goes from
\* the top to the pull pass, until the worker returns; it returns with
\* success only at the top on ENDING, or after a pull pass that left its
\* list of senders empty: the list was empty, or a unit of the pass found
\* every receiver of the list dropped.
C29_DisconnectIsNotFatal ==
    [][/\ (worker'.src_finished_flag /\ ~worker.src_finished_flag) =>
            /\ ~up.snd /\ up.q = <<>>
            /\ worker'.pc = "top" /\ worker'.exit = "none"
            /\ scheduler_result' = scheduler_result
            /\ scheduler_status' = scheduler_status
       /\ worker.src_finished_flag =>
            /\ worker'.src_finished_flag
            /\ worker'.recvd = worker.recvd
            /\ worker'.pc # "recv"
            /\ (worker.pc = "top" /\ worker'.pc # "top") =>
                  IF scheduler_status = STATUS_END
                  THEN worker'.pc = "returned" /\ worker'.exit = "Ok"
                  ELSE worker'.pc = "pull"
            /\ (worker.pc = "pull" /\ worker'.pc = "returned" /\ worker'.exit = "Ok") =>
                  /\ \A ch \in SeqToSet(frame_senders) : ~down[ch].open
                  /\ frame_senders # <<>> => worker'.produced > worker.produced
                  /\ down' = down
            /\ (worker.pc = "pull" /\ worker'.pc = "top") => frame_senders' # <<>>]_vars

C29_Witness ==
    /\ worker.src_finished_flag
    /\ worker.pc = "pull"
    /\ worker.recvd = 1 /\ worker.produced = 1
    /\ scheduler_result.err = "none"
    /\ scheduler_status = STATUS_RUN

\* C30: a unit the worker is about to receive is passed to the transform
\* hooks from the head on, in chain order, up to the first stage that
\* returns no unit or fails; when the worker has a destination, the unit
\* is forwarded exactly when every stage has returned a unit, and each
\* connected destination of the list is then sent what the tail stage
\* returned.
C30_PushPath ==
    (InLoop /\ up.q # <<>>) =>
        \A plan \in Plans(Len(HeadWalk), Len(frame_senders)) :
            LET unit == Head(up.q)
                r == run_filter_frame(Chain, unit, pipeline.head, frame_senders, down, plan)
                called == IF plan.stop = 0 THEN Len(HeadNames) ELSE plan.stop
            IN /\ r.via = SubSeq(HeadNames, 1, called)
               /\ (frame_senders # <<>> /\ plan.oom_at = 0) =>
                     /\ r.forwarded <=> plan.stop = 0
                     /\ ~r.forwarded => r.down = down
                     /\ r.forwarded =>
                           \A k \in DOMAIN frame_senders :
                               LET ch == frame_senders[k] IN
                               down[ch].open =>
                                   /\ Len(r.down[ch].q) = Len(down[ch].q) + 1
                                   /\ r.down[ch].q[Len(r.down[ch].q)].id = unit.id
                                   /\ r.down[ch].q[Len(r.down[ch].q)].via = HeadNames
                                   /\ SubSeq(r.down[ch].q, 1, Len(down[ch].q)) = down[ch].q

\* The stages the units of a pass come from, in the order they are produced.
RECURSIVE ProducersOf(_, _, _)
ProducersOf(pull, i, stop) ==
    IF i > stop THEN <<>>
    ELSE Repeat(i, YieldOf(pull, i)) \o ProducersOf(pull, i + 1, stop)

\* What the pull pass of hooks behaving as pull does in this state.
PassOf(pull) == request_pass(Chain, frame_senders, down, pull, -(worker.produced + 1))

\* The stage at which the pass of pull ends.
LastStage(pull) == IF pull.err_at = 0 THEN NStages ELSE pull.err_at

\* C31: every unit a produce hook returns in a pull pass is passed to the
\* transform hooks of the stages after the one it came from, in order, as
\* a pushed unit is: up to the first of them that returns no unit or
\* fails.
C31_EveryPulledUnitTransformed ==
    worker.pc = "pull" =>
        \A pull \in PullsMany(NStages, Len(frame_senders)) :
            LET r == PassOf(pull)
                by == ProducersOf(pull, 1, LastStage(pull))
            IN \A j \in DOMAIN r.seen :
                   LET k == by[j]
                       stop == PlanOf(pull, j).stop
                       called == IF stop = 0 \/ stop > NStages - k THEN NStages - k
                                 ELSE stop
                   IN /\ r.seen[j].by = HeadNames[k]
                      /\ r.seen[j].via = SubSeq(HeadNames, k + 1, k + called)

\* C32: the error of a stage-lifecycle failure tells the phase and the
\* stage: two workers that end with equal errors have failed in the same
\* phase and at the same stage of their chains.
C32_ErrorIdentifiesPhaseAndStage ==
    \A i, j \in DOMAIN worker :
        (worker[i].pc = "exited" /\ worker[j].pc = "exited"
         /\ worker[i].error = worker[j].error)
        => (worker[i].phase = worker[j].phase /\ worker[i].stage = worker[j].stage)

\* The chain is left exactly as it is, and no cell is found.
Untouched(r) == ~r.panic /\ ~r.ok /\ r.node = 0 /\ r.filter = NoFilter /\ r.s = Chain

\* C33: called with a name that no cell met from head carries, add_before
\* and add_after (with a stage of the chain's media kind) return false,
\* remove, replace and find return None, and head, tail, every link, every
\* name and every stage are as before; with a stage of another media kind
\* add_before, add_after and replace fail their assertion, and the chain is
\* as before as well.
C33_UnknownNameChangesNothing ==
    (Running /\ hook = "none") =>
        \A name \in Names :
            name \notin SeqToSet(HeadNames) =>
                /\ Untouched(remove(Chain, cur, name))
                /\ Untouched(find(Chain, cur, name))
                /\ \A new \in Names : \A f \in StagesNamed(new) :
                      IF f.kind = pipeline.media_type
                      THEN /\ Untouched(add_before(Chain, cur, name, new, f))
                           /\ Untouched(add_after(Chain, cur, name, new, f))
                           /\ Untouched(replace(Chain, cur, name, new, f))
                      ELSE /\ add_before(Chain, cur, name, new, f).s = Chain
                           /\ add_after(Chain, cur, name, new, f).s = Chain
                           /\ replace(Chain, cur, name, new, f).s = Chain

C33_Witness ==
    /\ Running /\ hook = "none"
    /\ last.op = "add_after" /\ ~last.ok
    /\ abs = <<"a", "b">> /\ HeadNames = abs

\* C34: input_pipeline_init and output_pipeline_init called with a builder
\* without filters return Ok, match no stream, replace no stream's
\* destinations or source, create no channel and spawn no worker.
C34_EmptyBuilderIsNoOp ==
    [][(bind.side = "none" /\ bind'.side # "none" /\ builder.filters = <<>>) =>
          /\ bind'.ret = "Ok"
          /\ ~bind'.ok /\ bind'.pos = 0 /\ bind'.err = "none"
          /\ bind'.receiver = 0 /\ bind'.senders = <<>>
          /\ ~bind'.spawned
          /\ nchan' = nchan
          /\ decoder_streams' = decoder_streams
          /\ encoder_streams' = encoder_streams
          /\ worker' = worker]_vars

\* The call is made where a builder with filters would have been bound.
C34_Witness ==
    /\ builder.filters = <<>>
    /\ bind.side = "input" /\ bind.ret = "Ok"
    /\ builder.stream_index = -1 /\ builder.linklabel = NoName
    /\ Len(decoder_streams) = 2
    /\ decoder_streams[1].codec_type = builder.media_type
    /\ Len(decoder_streams[1].dsts) = 2

\* C35: whatever the map holds, after set_attribute::<T>(k, v) a
\* get_attribute::<T>(k) returns v and a get_attribute::<U>(k) with another
\* U returns nothing; remove_attribute(k) returns the entry of k whatever
\* type it is called with, and afterwards get_attribute(k) returns nothing;
\* the entries of the other keys are what they were; and a get_attribute
\* that is made returns the value of the entry iff the types agree.
C35_AttributeMap ==
    /\ \A k \in AttrKeys, T \in AttrTypes :
          /\ \A v \in AttrValues :
                LET p == set_attribute(pipeline, T, k, v) IN
                /\ get_attribute(p, T, k) = Some(T, v)
                /\ \A U \in AttrTypes \ {T} : get_attribute(p, U, k) = NoValue
                /\ \A k2 \in AttrKeys \ {k} :
                      p.attribute_map[k2] = pipeline.attribute_map[k2]
          /\ LET r == remove_attribute(pipeline, T, k) IN
             /\ r.ret = IF pipeline.attribute_map[k] = NoAttr THEN NoValue
                        ELSE Some(pipeline.attribute_map[k].type,
                                  pipeline.attribute_map[k].value)
             /\ \A U \in AttrTypes :
                   /\ get_attribute(r.p, U, k) = NoValue
                   /\ remove_attribute(pipeline, U, k) = r
             /\ \A k2 \in AttrKeys \ {k} :
                   r.p.attribute_map[k2] = pipeline.attribute_map[k2]
    /\ last.op = "get_attribute" =>
          LET e == pipeline.attribute_map[last.key] IN
          /\ last.ret.some <=> e.type = last.type
          /\ last.ret.some => last.ret.value = e.value

\* A value read back under its type while the other key holds a value of
\* the other type.
C35_Witness ==
    /\ last.op = "get_attribute" /\ last.key = "k1" /\ last.type = "String"
    /\ last.ret = Some("String", "y")
    /\ pipeline.attribute_map["k2"] = [type |-> "i32", value |-> "x"]

\* C36: whenever the resolution succeeds, the stream that was bound has
\* the media kind the builder declares.
C36_BoundStreamHasBuilderKind ==
    (bind.side # "none" /\ bind.ok) =>
        Streams[bind.pos].codec_type = builder.media_type

\* C37: once the worker has found upstream disconnected, it eventually
\* ends, unless the run is paused or cancelled by another party.
C37_DrainedWorkerExits ==
    worker.src_finished_flag ~> (worker.pc = "exited" \/ scheduler_status # STATUS_RUN)

\* C40: whatever the order of connect_stream, take_src and take_dsts calls,
\* the packet-destination list of the demuxer holds at most one entry that
\* connect_stream created (output index absent) for each stream index.
C40_OneConnectEntryPerStream ==
    \A index \in 0..(Len(decoder_streams) - 1) :
        Cardinality({k \in DOMAIN dsts : dsts[k].index = index /\ dsts[k].out = -1}) <= 1

\* C38: whatever the order of get_src_sender and take_src calls, take_src
\* never fails, every sender get_src_sender has handed out is on the
\* channel of a receiver take_src has returned once take_src has returned
\* one, and a receive on such a receiver reports disconnected only when
\* every sender handed out has been dropped.
C38_SourceChannelPairing ==
    /\ ~panicked
    /\ graph_user.receivers # <<>> =>
          \A i \in DOMAIN graph_user.senders :
             \E j \in DOMAIN graph_user.receivers :
                graph_user.senders[i].chan = graph_user.receivers[j]
    /\ graph_user.recv = "disconnected" =>
          \A i \in DOMAIN graph_user.senders : ~graph_user.senders[i].live

\* The chains bound to the decoder stream at the given position, in the
\* order of binding.
ChainsOf(pos) ==
    LET OnStream(c) == c.side = "input" /\ c.pos = pos
    IN SelectSeq(bound_chains, OnStream)

\* The destinations the stream at the given position had before the first
\* binding: every binding that matched created one channel, the others
\* are the streams' destinations, in equal numbers and in stream order.
OrigDsts(pos) ==
    LET ndst == (nchan - Len(bound_chains)) \div Len(decoder_streams)
    IN [j \in 1..ndst |-> (pos - 1) * ndst + j]

\* C39: when two or more chains were bound in turn to one decoder stream,
\* each with its worker spawned, the stream has exactly one destination,
\* the channel of the chain bound last; every chain but the first sends
\* to the channel of the chain bound before it and to nothing else; the
\* first sends to the destinations the stream had before; the chains'
\* channels are distinct; and each original destination is fed by exactly
\* one chain and no longer by the stream.
C39_ChainsInSeries ==
    \A pos \in DOMAIN decoder_streams :
        LET W == ChainsOf(pos) IN
        (Len(W) >= 2 /\ \A i \in DOMAIN W : W[i].spawned) =>
            /\ decoder_streams[pos].dsts = <<W[Len(W)].receiver>>
            /\ \A i \in 2..Len(W) : W[i].senders = <<W[i - 1].receiver>>
            /\ W[1].senders = OrigDsts(pos)
            /\ \A i, j \in DOMAIN W : i # j => W[i].receiver # W[j].receiver
            /\ \A d \in SeqToSet(OrigDsts(pos)) :
                  /\ Cardinality({i \in DOMAIN bound_chains :
                                    d \in SeqToSet(bound_chains[i].senders)}) = 1
                  /\ \A q \in DOMAIN decoder_streams :
                        d \notin SeqToSet(decoder_streams[q].dsts)

C39_Witness ==
    /\ Len(decoder_streams) = 2
    /\ Len(ChainsOf(2)) = 3
    /\ \A i \in DOMAIN bound_chains : bound_chains[i].spawned
    /\ Len(OrigDsts(2)) = 2
    /\ decoder_streams[2].dsts = <<7>>

====
